---- MODULE Spec2Model ----
(***************************************************************************)
(* Snowflake-POC2: the plan guardrails of the COO dashboard (run_plan),    *)
(* the other callers of the DASH_GET_* procedures, and the query-plan      *)
(* validator / SQL renderer of the MCP server.                             *)
(*                                                                         *)
(* SQL text, error messages and timestamps are strings, built and searched *)
(* character by character the way the Python code builds and searches      *)
(* them.                                                                   *)
(***************************************************************************)
EXTENDS Integers, Sequences, FiniteSets, TLC

VARIABLES
    now,            \* the wall clock, in minutes since 2025-01-01T00:00 UTC
    plan_in,        \* the plan dict as handed to the last handler
    plan,           \* the same dict object after the handler (run_plan mutates params in place)
    sql_history,    \* the statements the last handler issued: [sql, binds]
    outcome,        \* how the last handler ended: [kind, error]
    caller,         \* which handler ran last
    request,        \* MCP server: the last request body [tool, plan]
    database,       \* MCP server: SqlRenderer.database
    conn,           \* MCP server: SnowflakeManager.conn ("none" or "open")
    executed,       \* MCP server: statements the last request ran on the warehouse
    response,       \* MCP server: the last response
    quote_calls,    \* MCP server: the _quote_value calls of the last render [value, text]
    render_memo,    \* MCP server: a plan rendered earlier in this run and its SQL
    nl_compiler,    \* NL compiler: which parser ran last
    nl_text,        \* NL compiler: the text it was given
    nl_plan,        \* NL compiler: the plan it returned
    nl_outcome,     \* NL compiler: how it ended: [kind, error]
    executor,       \* schedule executor: where run() stands
    events,         \* schedule executor: the rows of ACTIVITY.EVENTS it reads and appends
    schedules,      \* schedule executor: the due rows of this cycle still to be processed
    fetched,        \* schedule executor: what get_due_schedules returned in this cycle
    cycle_log,      \* schedule executor: one record per process_schedule call of this cycle
    prev_log,       \* schedule executor: the records of the cycle before
    cycles,         \* schedule executor: the cycles completed
    created,        \* schedule creation: the last schedule created and its next_run
    chat,           \* data chat: the last question and what parse_user_input made of it
    ui              \* COO dashboard: st.session_state, the preset cards and the screen

dashVars == <<now, plan_in, plan, sql_history, outcome, caller>>
serverVars == <<request, database, conn, executed, response, quote_calls, render_memo>>
nlVars == <<nl_compiler, nl_text, nl_plan, nl_outcome>>
pollerVars == <<executor, events, schedules, fetched, cycle_log, prev_log, cycles>>
schedVars == <<created>>
chatVars == <<chat>>
uiVars == <<ui>>
vars == <<now, plan_in, plan, sql_history, outcome, caller,
          request, database, conn, executed, response, quote_calls, render_memo,
          nl_compiler, nl_text, nl_plan, nl_outcome,
          executor, events, schedules, fetched, cycle_log, prev_log, cycles,
          created, chat, ui>>

\* what the handlers of one program leave alone
otherThanDash == <<serverVars, nlVars, pollerVars, schedVars, chatVars, uiVars>>
otherThanServer == <<dashVars, nlVars, pollerVars, schedVars, chatVars, uiVars>>
otherThanNL == <<serverVars, pollerVars, schedVars, chatVars, uiVars>>
\* what only the handlers of the dashboards write
callVars == <<plan_in, plan, sql_history, outcome, caller>>

(***************************************************************************)
(* Bounds of the model.                                                    *)
(***************************************************************************)
MaxTicks == 2
MaxN == 52
MaxPanels == 2

(***************************************************************************)
(* Python string primitives.                                               *)
(***************************************************************************)
CharAt(s, i) == SubSeq(s, i, i)

\* sub in s
Contains(s, sub) ==
    \E i \in 0..(Len(s) - Len(sub)) : SubSeq(s, i + 1, i + Len(sub)) = sub

RECURSIVE Replace(_, _, _)
\* s.replace(old, new) for a one-character old
Replace(s, old, new) ==
    IF Len(s) = 0 THEN ""
    ELSE (IF Head(s) = old THEN new ELSE Head(s)) \o Replace(Tail(s), old, new)

RECURSIVE SplitFrom(_, _, _)
SplitFrom(s, sep, acc) ==
    IF Len(s) = 0 THEN <<acc>>
    ELSE IF Head(s) = sep THEN <<acc>> \o SplitFrom(Tail(s), sep, "")
    ELSE SplitFrom(Tail(s), sep, acc \o Head(s))

\* s.split(sep) for a one-character sep
Split(s, sep) == SplitFrom(s, sep, "")

RECURSIVE Join(_, _)
\* sep.join(parts)
Join(sep, parts) ==
    IF Len(parts) = 0 THEN ""
    ELSE IF Len(parts) = 1 THEN parts[1]
    ELSE parts[1] \o sep \o Join(sep, Tail(parts))

Digit(d) == CharAt("0123456789", d + 1)

RECURSIVE StrNat(_)
StrNat(n) == IF n < 10 THEN Digit(n) ELSE StrNat(n \div 10) \o Digit(n % 10)

\* str(n) of a Python int
StrInt(n) == IF n < 0 THEN "-" \o StrNat(0 - n) ELSE StrNat(n)

Pad2(n) == Digit(n \div 10) \o Digit(n % 10)

Min(a, b) == IF a < b THEN a ELSE b

(***************************************************************************)
(* datetime.isoformat() of an aware UTC datetime with zero seconds.  The   *)
(* clock counts minutes since 2025-01-01T00:00 UTC (negative before it).   *)
(***************************************************************************)
MonthDays == <<31, 28, 31, 30, 31, 30, 31, 31, 30, 31, 30, 31>>

IsLeap(y) == (y % 4 = 0 /\ y % 100 # 0) \/ y % 400 = 0

DaysInYear(y) == IF IsLeap(y) THEN 366 ELSE 365

DaysInMonth(y, m) == IF m = 2 /\ IsLeap(y) THEN 29 ELSE MonthDays[m]

RECURSIVE YearOf(_, _)
\* <<year, zero-based day of that year>> of the day d counted from 1 January of year y
YearOf(d, y) ==
    IF d < 0 THEN YearOf(d + DaysInYear(y - 1), y - 1)
    ELSE IF d >= DaysInYear(y) THEN YearOf(d - DaysInYear(y), y + 1)
    ELSE <<y, d>>

RECURSIVE MonthOf(_, _, _)
\* <<month, day of month>> of the zero-based day d of year y, searching from month m
MonthOf(y, d, m) ==
    IF d < DaysInMonth(y, m) THEN <<m, d + 1>> ELSE MonthOf(y, d - DaysInMonth(y, m), m + 1)

\* floor division and remainder (the clock is negative before 2025)
FloorDiv(a, b) == IF a >= 0 THEN a \div b ELSE 0 - ((b - 1 - a) \div b)
FloorMod(a, b) == a - b * FloorDiv(a, b)

Pad4(n) == Pad2(n \div 100) \o Pad2(n % 100)

\* datetime.now() without a time zone: no offset is written
isoformat_naive(t) ==
    LET yd == YearOf(FloorDiv(t, 1440), 2025)
        md == MonthOf(yd[1], yd[2], 1)
        hh == FloorMod(t, 1440) \div 60
        mm == FloorMod(t, 60)
    IN Pad4(yd[1]) \o "-" \o Pad2(md[1]) \o "-" \o Pad2(md[2]) \o "T"
         \o Pad2(hh) \o ":" \o Pad2(mm) \o ":00"

isoformat(t) ==
    LET yd == YearOf(FloorDiv(t, 1440), 2025)
        md == MonthOf(yd[1], yd[2], 1)
        hh == FloorMod(t, 1440) \div 60
        mm == FloorMod(t, 60)
    IN Pad4(yd[1]) \o "-" \o Pad2(md[1]) \o "-" \o Pad2(md[2]) \o "T"
         \o Pad2(hh) \o ":" \o Pad2(mm) \o ":00+00:00"

\* the instant the model starts at: 2025-03-10T09:30 UTC
StartClock == (((31 + 28 + 9) * 24) + 9) * 60 + 30

(***************************************************************************)
(* Python dicts are functions from keys to values.                         *)
(***************************************************************************)
Has(d, k) == k \in DOMAIN d

\* d[k] = v
Put(d, k, v) == [x \in (DOMAIN d) \cup {k} |-> IF x = k THEN v ELSE d[x]]

EmptyDict == [x \in {} |-> ""]

(***************************************************************************)
(* json.dumps / json.loads for the values a plan's params hold: an object  *)
(* whose values are strings, integers or one nested object of strings.     *)
(* The keys are written in KeyOrder (the order of the plan literals of the *)
(* repository); the insertion order of a dict is not modelled.             *)
(***************************************************************************)
KeyOrder == <<"start_ts", "end_ts", "cursor_ts", "interval", "dimension",
              "n", "limit", "filters", "group_by", "actor", "action", "cohort_url">>

IntKeys == {"n", "limit"}
ObjectKeys == {"filters"}

\* the body of a JSON string: backslash and double quote are escaped
JsonEscape(s) == Replace(Replace(s, "\\", "\\\\"), "\"", "\\\"")

RECURSIVE json_dumps(_)
json_dumps(d) ==
    LET keys == SelectSeq(KeyOrder, LAMBDA k : k \in DOMAIN d)
        item(k) == "\"" \o JsonEscape(k) \o "\": " \o
                   (IF k \in IntKeys THEN StrInt(d[k])
                    ELSE IF k \in ObjectKeys THEN json_dumps(d[k])
                    ELSE "\"" \o JsonEscape(d[k]) \o "\"")
    IN "{" \o Join(", ", [i \in 1..Len(keys) |-> item(keys[i])]) \o "}"

IsDigit(c) == Contains("0123456789", c) /\ Len(c) = 1

DigitVal(c) == CHOOSE d \in 0..9 : Digit(d) = c

RECURSIVE ParseString(_, _, _)
\* s[i] is the first character after the opening quote; <<string, index after the closing quote>>
ParseString(s, i, acc) ==
    IF CharAt(s, i) = "\"" THEN <<acc, i + 1>>
    ELSE IF CharAt(s, i) = "\\" THEN ParseString(s, i + 2, acc \o CharAt(s, i + 1))
    ELSE ParseString(s, i + 1, acc \o CharAt(s, i))

RECURSIVE ParseNat(_, _, _)
ParseNat(s, i, acc) ==
    IF i <= Len(s) /\ IsDigit(CharAt(s, i))
    THEN ParseNat(s, i + 1, acc * 10 + DigitVal(CharAt(s, i)))
    ELSE <<acc, i>>

ParseInt(s, i) ==
    IF CharAt(s, i) = "-"
    THEN LET r == ParseNat(s, i + 1, 0) IN <<0 - r[1], r[2]>>
    ELSE ParseNat(s, i, 0)

RECURSIVE ParseMembers(_, _, _)
RECURSIVE ParseObject(_, _)
\* s[i] is the opening quote of a key; <<object, index after the closing brace>>
ParseMembers(s, i, acc) ==
    LET key == ParseString(s, i + 1, "")
        vi  == key[2] + 2                     \* skip ": "
        val == IF CharAt(s, vi) = "\"" THEN ParseString(s, vi + 1, "")
               ELSE IF CharAt(s, vi) = "{" THEN ParseObject(s, vi)
               ELSE ParseInt(s, vi)
        obj == Put(acc, key[1], val[1])
    IN IF CharAt(s, val[2]) = "," THEN ParseMembers(s, val[2] + 2, obj)
       ELSE <<obj, val[2] + 1>>

ParseObject(s, i) ==
    IF CharAt(s, i + 1) = "}" THEN <<EmptyDict, i + 2>>
    ELSE ParseMembers(s, i + 1, EmptyDict)

json_loads(s) == ParseObject(s, 1)[1]

(***************************************************************************)
(* stage/coo_dashboard.py: run_plan                                        *)
(***************************************************************************)
allowed == {"DASH_GET_SERIES", "DASH_GET_TOPN", "DASH_GET_EVENTS", "DASH_GET_METRICS"}

valid_intervals == {"minute", "5 minute", "15 minute", "hour", "day"}

LimitCap == 5000
NCap == 50
DefaultLimit == 1000
DefaultN == 10

\* d.get(k, default)
Get(d, k, default) == IF k \in DOMAIN d THEN d[k] ELSE default

\* a whitelist by prefix instead of by membership
ProcAllowed_prefix(pl) == Has(pl, "proc") /\ SubSeq(pl.proc, 1, 9) = "DASH_GET_"

\* plan.get("proc") in allowed; a plan without proc yields None, which is not allowed
ProcAllowed(pl) == Has(pl, "proc") /\ pl.proc \in allowed

\* str(plan.get("proc")) as the f-string of the error message prints it
ProcText(pl) == IF Has(pl, "proc") THEN pl.proc ELSE "None"

\* plan.get("params", {})
ParamsOf(pl) == IF Has(pl, "params") THEN pl.params ELSE EmptyDict

\* lines 180-186: each timestamp field is tested for its own marker only
SanitizeTimestamps(params, t) ==
    LET p1 == IF Has(params, "start_ts") /\ Contains(params.start_ts, "DATEADD")
              THEN Put(params, "start_ts", isoformat(t - 24 * 60)) ELSE params
        p2 == IF Has(p1, "end_ts") /\ Contains(p1.end_ts, "CURRENT")
              THEN Put(p1, "end_ts", isoformat(t)) ELSE p1
        p3 == IF Has(p2, "cursor_ts") /\ Contains(p2.cursor_ts, "DATEADD")
              THEN Put(p2, "cursor_ts", isoformat(t - 5)) ELSE p2
    IN p3

\* the two caps swapped
ClampLimits_swapped(params) ==
    LET p1 == IF Has(params, "limit")
              THEN Put(params, "limit", Min(Get(params, "limit", DefaultLimit), NCap))
              ELSE params
        p2 == IF Has(p1, "n") THEN Put(p1, "n", Min(Get(p1, "n", DefaultN), LimitCap)) ELSE p1
    IN p2

\* lines 189-192: a key is clamped only when it is present
ClampLimits(params) ==
    LET p1 == IF Has(params, "limit")
              THEN Put(params, "limit", Min(Get(params, "limit", DefaultLimit), LimitCap))
              ELSE params
        p2 == IF Has(p1, "n") THEN Put(p1, "n", Min(Get(p1, "n", DefaultN), NCap)) ELSE p1
    IN p2

\* an unknown interval falls back to "day"
ValidateInterval_day(params) ==
    IF Has(params, "interval") /\ params.interval \notin valid_intervals
    THEN Put(params, "interval", "day") ELSE params

\* lines 195-198
ValidateInterval(params) ==
    IF Has(params, "interval") /\ params.interval \notin valid_intervals
    THEN Put(params, "interval", "hour") ELSE params

\* the statement of line 204
CallStmt(proc) == "CALL MCP." \o proc \o "(PARSE_JSON(?))"

\* the statement of line 201
QueryTagStmt(query_tag) == "ALTER SESSION SET QUERY_TAG = '" \o query_tag \o "'"

Stmt(sql, binds) == [sql |-> sql, binds |-> binds]

Returned == [kind |-> "returned", error |-> ""]
Raised(msg) == [kind |-> "raised", error |-> msg]

WarehouseError == "SQL execution error"

\* lines 176-201 of run_plan: the params dict once the timestamps, the limits and
\* the interval have been written into it
run_plan_params(pl, t) == ValidateInterval(ClampLimits(SanitizeTimestamps(ParamsOf(pl), t)))

\* run_plan(session, plan, query_tag) at instant t; wh says which statement,
\* if any, the warehouse fails.  Yields the params dict after the call, the
\* statements issued and the outcome.
run_plan(pl, query_tag, t, wh) ==
    IF ~ProcAllowed(pl)
    THEN [params |-> ParamsOf(pl), stmts |-> <<>>,
          outcome |-> Raised("Disallowed proc: " \o ProcText(pl))]
    ELSE LET params == run_plan_params(pl, t)
             tagStmt == Stmt(QueryTagStmt(query_tag), <<>>)
             callStmt == Stmt(CallStmt(pl.proc), <<json_dumps(params)>>)
         IN IF wh = "alter_fails"
            THEN [params |-> params, stmts |-> <<tagStmt>>, outcome |-> Raised(WarehouseError)]
            ELSE IF wh = "call_fails"
            THEN [params |-> params, stmts |-> <<tagStmt, callStmt>>,
                  outcome |-> Raised(WarehouseError)]
            ELSE [params |-> params, stmts |-> <<tagStmt, callStmt>>, outcome |-> Returned]

\* the query tag execute_plan builds (line 225)
QueryTagOf(pl) == "dash-ui|agent:claude|proc:" \o ProcText(pl)

(***************************************************************************)
(* The plans handed to run_plan.                                           *)
(***************************************************************************)
IsoSample == "2025-01-16T00:00:00Z"
DateaddCurrent == "DATEADD('hour', -24, CURRENT_TIMESTAMP())"
CurrentOnly == "CURRENT_TIMESTAMP()"
DateaddOnly == "DATEADD('day', -7, '2025-01-16')"

TsSamples == {IsoSample, DateaddCurrent, CurrentOnly, DateaddOnly}

ProcSamples == allowed \cup {"DROP_TABLE", "DASH_GET_USERS", "dash_get_series"}

IntervalSamples == valid_intervals \cup {"2 minutes", "HOUR", "week", ""}

NSamples == (0..MaxN) \cup {999999, 0 - 5}
LimitSamples == {0, 1, 1000, 4999, 5000, 5001, 999999, 0 - 1}

TsParams == UNION {[ks -> TsSamples] : ks \in SUBSET {"start_ts", "end_ts", "cursor_ts"}}

NumParams ==
    {[n |-> n] : n \in NSamples}
    \cup {[limit |-> l] : l \in LimitSamples}
    \cup {[n |-> n, limit |-> l, dimension |-> "actor"] : n \in {10, 51}, l \in {1000, 5001}}

IntervalParams ==
    {[start_ts |-> IsoSample, end_ts |-> IsoSample, interval |-> i] : i \in IntervalSamples}

FilterParams ==
    {[dimension |-> "action", n |-> 10,
      filters |-> [actor |-> "user@example.com", action |-> "user.login"]],
     [start_ts |-> IsoSample, filters |-> EmptyDict]}

GuardedPlans ==
    {[proc |-> "DASH_GET_SERIES", params |-> p] : p \in TsParams \cup IntervalParams}
    \cup {[proc |-> "DASH_GET_TOPN", params |-> p] : p \in NumParams \cup FilterParams}
    \cup {[proc |-> "DASH_GET_EVENTS", params |-> [cursor_ts |-> c, limit |-> 50]] :
             c \in TsSamples}

ProcPlans ==
    {[proc |-> pr, params |-> p] :
        pr \in ProcSamples, p \in {EmptyDict, [start_ts |-> DateaddCurrent, n |-> 999999]}}
    \cup {[params |-> EmptyDict], [proc |-> "DASH_GET_METRICS"],
          [params |-> [n |-> 999999, interval |-> "week"]]}

PlanInputs == GuardedPlans \cup ProcPlans

(***************************************************************************)
(* stage/streamlit_app.py: execute_dashboard_proc                          *)
(***************************************************************************)
I12 == "            "
I16 == "                "
I24 == "                        "
I28 == "                            "

\* repr(s) of a Python str
PyRepr(s) ==
    LET b == Replace(s, "\\", "\\\\")
    IN IF Contains(s, "'") /\ ~Contains(s, "\"")
       THEN "\"" \o b \o "\""
       ELSE "'" \o Replace(b, "'", "\\'") \o "'"

\* Python truthiness of params.get(k) for a str or dict value
Truthy(d, k) == Has(d, k) /\ (IF k \in ObjectKeys THEN DOMAIN d[k] # {} ELSE Len(d[k]) > 0)

FiltersArg(params) ==
    IF Truthy(params, "filters")
    THEN "PARSE_JSON(" \o PyRepr(json_dumps(params.filters)) \o ")" ELSE "NULL"

DefaultStart == "DATEADD('hour', -24, CURRENT_TIMESTAMP())"
DefaultEnd == "CURRENT_TIMESTAMP()"
DefaultCursor == "DATEADD('minute', -5, CURRENT_TIMESTAMP())"

\* the SQL text lines 63-97 build for a known procedure
DashboardProcSql(proc_name, params) ==
    IF proc_name = "DASH_GET_SERIES" THEN
        "\n" \o I12 \o "CALL MCP.DASH_GET_SERIES(\n"
        \o I16 \o Get(params, "start_ts", DefaultStart) \o ",\n"
        \o I16 \o Get(params, "end_ts", DefaultEnd) \o ",\n"
        \o I16 \o "'" \o Get(params, "interval_str", "hour") \o "',\n"
        \o I16 \o FiltersArg(params) \o ",\n"
        \o I16 \o (IF Truthy(params, "group_by") THEN PyRepr(params.group_by) ELSE "NULL")
        \o "\n" \o I12 \o ")\n" \o I12
    ELSE IF proc_name = "DASH_GET_TOPN" THEN
        "\n" \o I12 \o "CALL MCP.DASH_GET_TOPN(\n"
        \o I16 \o Get(params, "start_ts", DefaultStart) \o ",\n"
        \o I16 \o Get(params, "end_ts", DefaultEnd) \o ",\n"
        \o I16 \o "'" \o Get(params, "dimension", "action") \o "',\n"
        \o I16 \o FiltersArg(params) \o ",\n"
        \o I16 \o StrInt(Get(params, "n", DefaultN))
        \o "\n" \o I12 \o ")\n" \o I12
    ELSE IF proc_name = "DASH_GET_EVENTS" THEN
        "\n" \o I12 \o "CALL MCP.DASH_GET_EVENTS(\n"
        \o I16 \o Get(params, "cursor_ts", DefaultCursor) \o ",\n"
        \o I16 \o StrInt(Get(params, "limit_rows", 50))
        \o "\n" \o I12 \o ")\n" \o I12
    ELSE
        "\n" \o I12 \o "CALL MCP.DASH_GET_METRICS(\n"
        \o I16 \o Get(params, "start_ts", DefaultStart) \o ",\n"
        \o I16 \o Get(params, "end_ts", DefaultEnd) \o ",\n"
        \o I16 \o FiltersArg(params)
        \o "\n" \o I12 \o ")\n" \o I12

ReturnedNone(msg) == [kind |-> "returned_none", error |-> msg]

\* execute_dashboard_proc(proc_name, params): statements issued and outcome
execute_dashboard_proc(proc_name, params, wh) ==
    IF proc_name \notin allowed
    THEN [stmts |-> <<>>, outcome |-> ReturnedNone("Unknown procedure: " \o proc_name)]
    ELSE LET stmt == Stmt(DashboardProcSql(proc_name, params), <<>>)
         IN IF wh = "call_fails"
            THEN [stmts |-> <<stmt>>,
                  outcome |-> ReturnedNone("Error executing " \o proc_name \o ": "
                                              \o WarehouseError)]
            ELSE IF wh = "no_row"
            THEN [stmts |-> <<stmt>>, outcome |-> ReturnedNone("")]
            ELSE IF wh = "not_ok"
            THEN [stmts |-> <<stmt>>, outcome |-> ReturnedNone("Procedure error: failed")]
            ELSE [stmts |-> <<stmt>>, outcome |-> Returned]

PanelParamSamples ==
    {EmptyDict,
     [start_ts |-> "'2025-01-16T00:00:00Z'", end_ts |-> "'2025-01-17T00:00:00Z'",
      interval_str |-> "day", group_by |-> "action"],
     [dimension |-> "actor", n |-> 25, filters |-> [actor |-> "o'brien@example.com"]],
     [cursor_ts |-> "'2025-01-16T00:00:00Z'", limit_rows |-> 100],
     [filters |-> EmptyDict, group_by |-> ""]}

(***************************************************************************)
(* scripts/schedule-executor.py: ScheduleExecutor.execute_dashboard        *)
(***************************************************************************)
SpecQuery(dashboard_id) ==
    "\n" \o I12 \o "SELECT \n" \o I16 \o "title,\n" \o I16 \o "spec\n"
    \o I12 \o "FROM MCP.VW_DASHBOARDS\n"
    \o I12 \o "WHERE dashboard_id = '" \o dashboard_id \o "'\n"
    \o I12 \o "LIMIT 1\n" \o I12

MetricsProcSql ==
    "\n" \o I24 \o "CALL MCP.DASH_GET_METRICS(\n"
    \o I28 \o "DATEADD('hour', -24, CURRENT_TIMESTAMP()),\n"
    \o I28 \o "CURRENT_TIMESTAMP(),\n"
    \o I28 \o "NULL\n" \o I24 \o ")\n" \o I24

TopnProcSql(params) ==
    "\n" \o I24 \o "CALL MCP.DASH_GET_TOPN(\n"
    \o I28 \o "DATEADD('hour', -24, CURRENT_TIMESTAMP()),\n"
    \o I28 \o "CURRENT_TIMESTAMP(),\n"
    \o I28 \o "'" \o Get(params, "dimension", "action") \o "',\n"
    \o I28 \o "NULL,\n"
    \o I28 \o StrInt(Get(params, "n", DefaultN)) \o "\n" \o I24 \o ")\n" \o I24

RECURSIVE PanelStmts(_)
\* lines 145-173: the statement of each panel that carries a METRICS or TOPN plan
PanelStmts(panels) ==
    IF Len(panels) = 0 THEN <<>>
    ELSE LET panel == Head(panels)
             rest == PanelStmts(Tail(panels))
         IN IF ~Has(panel, "plan") THEN rest
            ELSE IF ~Has(panel.plan, "proc") THEN rest
            ELSE IF panel.plan.proc = "DASH_GET_METRICS"
                 THEN <<Stmt(MetricsProcSql, <<>>)>> \o rest
            ELSE IF panel.plan.proc = "DASH_GET_TOPN"
                 THEN <<Stmt(TopnProcSql(ParamsOf(panel.plan)), <<>>)>> \o rest
            ELSE rest

RECURSIVE ExecutedPanels(_, _)
\* lines 145-173: the positions, counted from i, of the panels whose statement is executed
ExecutedPanels(panels, i) ==
    IF Len(panels) = 0 THEN <<>>
    ELSE LET panel == Head(panels)
             rest == ExecutedPanels(Tail(panels), i + 1)
         IN IF ~Has(panel, "plan") THEN rest
            ELSE IF ~Has(panel.plan, "proc") THEN rest
            ELSE IF panel.plan.proc \in {"DASH_GET_METRICS", "DASH_GET_TOPN"}
                 THEN <<i>> \o rest
            ELSE rest

\* lines 174-178: results.append({'panel': title, 'data': row}) after each executed statement
PanelResults(panels) ==
    LET done == ExecutedPanels(panels, 1)
    IN [k \in 1..Len(done) |->
           [panel |-> Get(panels[done[k]], "title", "Untitled"),
            data |-> "row of " \o panels[done[k]].plan.proc]]

\* execute_dashboard(dashboard_id): found says whether VW_DASHBOARDS has the row,
\* fail_at which cursor.execute raises (0: none); results is the 'results' list of
\* the dict it returns (the dashboard's title, copied from the row, is left out)
execute_dashboard(dashboard_id, found, panels, fail_at) ==
    LET all == <<Stmt(SpecQuery(dashboard_id), <<>>)>>
               \o (IF found THEN PanelStmts(panels) ELSE <<>>)
    IN IF fail_at \in 1..Len(all)
       THEN [stmts |-> SubSeq(all, 1, fail_at),
             outcome |-> ReturnedNone("Error executing dashboard " \o dashboard_id
                                         \o ": " \o WarehouseError),
             results |-> <<>>]
       ELSE IF ~found
       THEN [stmts |-> all, outcome |-> ReturnedNone("Dashboard " \o dashboard_id \o " not found"),
             results |-> <<>>]
       ELSE [stmts |-> all, outcome |-> Returned, results |-> PanelResults(panels)]

PanelSamples ==
    {[title |-> "Overview", plan |-> [proc |-> "DASH_GET_METRICS", params |-> EmptyDict]],
     [title |-> "Top", plan |-> [proc |-> "DASH_GET_TOPN",
                                 params |-> [dimension |-> "actor", n |-> 25]]],
     [title |-> "Top", plan |-> [proc |-> "DASH_GET_TOPN"]],
     [title |-> "Series", plan |-> [proc |-> "DASH_GET_SERIES",
                                    params |-> [interval |-> "hour"]]],
     [title |-> "Bare"]}

PanelLists == UNION {[1..k -> PanelSamples] : k \in 0..MaxPanels}

(***************************************************************************)
(* The dashboards and the schedule executor as one state machine: each     *)
(* action is one call of a handler that reaches the DASH_GET_* procedures. *)
(***************************************************************************)
NoOutcome == [kind |-> "none", error |-> ""]

DashInit ==
    /\ now = StartClock
    /\ plan_in = EmptyDict
    /\ plan = EmptyDict
    /\ sql_history = <<>>
    /\ outcome = NoOutcome
    /\ caller = "none"

\* no handler is running
DashIdle == caller = "none"

Tick ==
    /\ DashIdle
    /\ now < StartClock + MaxTicks
    /\ now' = now + 1
    /\ UNCHANGED <<plan_in, plan, sql_history, outcome, caller>>
    /\ UNCHANGED otherThanDash

RunPlan ==
    \E pl \in PlanInputs, wh \in {"ok", "alter_fails", "call_fails"} :
        LET r == run_plan(pl, QueryTagOf(pl), now, wh)
        IN /\ DashIdle
           /\ plan_in' = pl
           /\ plan' = IF Has(pl, "params") THEN [pl EXCEPT !.params = r.params] ELSE pl
           /\ sql_history' = r.stmts
           /\ outcome' = r.outcome
           /\ caller' = "run_plan"
           /\ UNCHANGED now
           /\ UNCHANGED otherThanDash

ExecuteDashboardProc ==
    \E proc_name \in allowed \cup {"DASH_GET_USERS"}, params \in PanelParamSamples,
       wh \in {"ok", "call_fails", "no_row", "not_ok"} :
        LET r == execute_dashboard_proc(proc_name, params, wh)
        IN /\ DashIdle
           /\ plan_in' = [proc |-> proc_name, params |-> params]
           /\ plan' = [proc |-> proc_name, params |-> params]
           /\ sql_history' = r.stmts
           /\ outcome' = r.outcome
           /\ caller' = "execute_dashboard_proc"
           /\ UNCHANGED now
           /\ UNCHANGED otherThanDash

ExecuteDashboard ==
    \E dashboard_id \in {"dash_20250116_090000"}, found \in BOOLEAN,
       panels \in PanelLists, fail_at \in 0..(MaxPanels + 1) :
        LET r == execute_dashboard(dashboard_id, found, panels, fail_at)
        IN /\ DashIdle
           /\ plan_in' = [panels |-> panels]
           /\ plan' = [panels |-> panels]
           /\ sql_history' = r.stmts
           /\ outcome' = r.outcome
           /\ caller' = "execute_dashboard"
           /\ UNCHANGED now
           /\ UNCHANGED otherThanDash

\* the handler has returned to its caller; the next call starts afresh
Return ==
    /\ ~DashIdle
    /\ plan_in' = EmptyDict
    /\ plan' = EmptyDict
    /\ sql_history' = <<>>
    /\ outcome' = NoOutcome
    /\ caller' = "none"
    /\ UNCHANGED now
    /\ UNCHANGED otherThanDash

(***************************************************************************)
(* snowpark/mcp_server.py: the schema contract                             *)
(*                                                                         *)
(* An Optional[T] is a sequence: <<>> is None, <<v>> is the value v.       *)
(***************************************************************************)
None == <<>>
Some(v) == <<v>>
IsNone(o) == Len(o) = 0

\* the fallback contract of _load_contract
contract_database == "CLAUDE_BI"
max_rows_per_query == 10000

\* _extract_sources over the fallback contract
allowed_sources ==
    {"ACTIVITY.EVENTS", "ACTIVITY_CCODE.ARTIFACTS",
     "ACTIVITY_CCODE.VW_ACTIVITY_SUMMARY", "ACTIVITY_CCODE.VW_ACTIVITY_COUNTS_24H"}

validate_source(source) ==
    IF ~Contains(source, ".") THEN FALSE
    ELSE LET parts == Split(source, ".")
             two == IF Len(parts) = 3 THEN parts[2] \o "." \o parts[3] ELSE source
         IN two \in allowed_sources

\* Python truthiness of an Optional[int]
TruthyInt(o) == ~IsNone(o) /\ o[1] # 0

\* SchemaContract.validate_plan: the list of errors
validate_plan(pl) ==
    (IF ~validate_source(pl.source) THEN <<"Unknown source: " \o pl.source>> ELSE <<>>)
    \o (IF TruthyInt(pl.top_n) /\ pl.top_n[1] > max_rows_per_query
        THEN <<"Row limit " \o StrInt(pl.top_n[1]) \o " exceeds maximum "
                \o StrInt(max_rows_per_query)>>
        ELSE <<>>)

\* the QueryPlan model: Field(None, le=10000) and the top_n validator
TopNMax == 10000
QueryPlanAccepts(pl) == IsNone(pl.top_n) \/ pl.top_n[1] <= TopNMax

(***************************************************************************)
(* snowpark/mcp_server.py: SqlRenderer                                     *)
(*                                                                         *)
(* A JSON value of a filter is a record tagged with its Python type.       *)
(***************************************************************************)
VNone == [t |-> "NoneType"]
VBool(b) == [t |-> "bool", b |-> b]
VInt(i) == [t |-> "int", i |-> i]
VFloat(whole, tenth) == [t |-> "float", whole |-> whole, tenth |-> tenth]
VStr(s) == [t |-> "str", s |-> s]
VList(items) == [t |-> "list", items |-> items]

\* the classes a value is an instance of: bool is a subclass of int
ClassesOf(value) == IF value.t = "bool" THEN {"bool", "int"} ELSE {value.t}

\* isinstance(value, types)
isinstance(value, types) == ClassesOf(value) \cap types # {}

RECURSIVE PyReprValue(_)
\* repr(value)
PyReprValue(value) ==
    IF value.t = "NoneType" THEN "None"
    ELSE IF value.t = "bool" THEN (IF value.b THEN "True" ELSE "False")
    ELSE IF value.t = "int" THEN StrInt(value.i)
    ELSE IF value.t = "float" THEN StrInt(value.whole) \o "." \o Digit(value.tenth)
    ELSE IF value.t = "str" THEN PyRepr(value.s)
    ELSE "[" \o Join(", ", [i \in 1..Len(value.items) |-> PyReprValue(value.items[i])]) \o "]"

\* str(value)
PyStr(value) == IF value.t = "str" THEN value.s ELSE PyReprValue(value)

_quote_value(value) ==
    IF value.t = "NoneType" THEN "NULL"
    ELSE IF isinstance(value, {"int", "float"}) THEN PyStr(value)
    ELSE IF isinstance(value, {"bool"}) THEN (IF value.b THEN "TRUE" ELSE "FALSE")
    ELSE "'" \o Replace(PyStr(value), "'", "''") \o "'"

\* a two-part name is left to the session's current database once connected
_qualify_source_session(db, source) ==
    IF ~Contains(source, ".") THEN db \o ".ACTIVITY." \o source
    ELSE LET parts == Split(source, ".")
         IN IF Len(parts) = 2 /\ conn = "none" THEN db \o "." \o parts[1] \o "." \o parts[2]
            ELSE source

_qualify_source(db, source) ==
    IF ~Contains(source, ".") THEN db \o ".ACTIVITY." \o source
    ELSE LET parts == Split(source, ".")
         IN IF Len(parts) = 2 THEN db \o "." \o parts[1] \o "." \o parts[2]
            ELSE source

\* The pieces an f-string is made of: the literal text of the template, an
\* expression interpolated as it is, and the result of _quote_value.
Lit(text) == [src |-> "template", text |-> text]
Qualified(text) == [src |-> "source", text |-> text]
Raw(text) == [src |-> "raw", text |-> text]
Num(n) == [src |-> "int", text |-> StrInt(n)]
Quoted(value) == [src |-> "quoted", text |-> _quote_value(value), value |-> value]

RECURSIVE JoinParts(_, _)
\* sep.join(items) where every item is a sequence of pieces
JoinParts(sep, items) ==
    IF Len(items) = 0 THEN <<>>
    ELSE IF Len(items) = 1 THEN items[1]
    ELSE items[1] \o <<Lit(sep)>> \o JoinParts(sep, Tail(items))

RECURSIVE TextOf(_)
TextOf(parts) == IF Len(parts) = 0 THEN "" ELSE Head(parts).text \o TextOf(Tail(parts))

\* lines 190-194: one measure of the SELECT list
MeasureParts(measure) ==
    LET fn == Get(measure, "fn", "COUNT")
        col == Get(measure, "column", "*")
        alias == Replace(fn \o "_" \o col, "*", "ALL")
    IN <<Raw(fn), Lit("("), Raw(col), Lit(") AS "), Raw(alias)>>

\* a Python iteration over val: the items of a list, the characters of a str
IterItems(val) ==
    IF val.t = "list" THEN val.items ELSE [i \in 1..Len(val.s) |-> VStr(CharAt(val.s, i))]

\* lines 206-217: one condition of the WHERE clause
FilterParts(filter_def) ==
    LET col == filter_def.column
        op == filter_def.operator
        val == filter_def.value
    IN IF op = "IN"
       THEN <<Raw(col), Lit(" "), Raw(op), Lit(" "), Lit("(")>>
            \o JoinParts(",", [i \in 1..Len(IterItems(val)) |-> <<Quoted(IterItems(val)[i])>>])
            \o <<Lit(")")>>
       ELSE IF op = "BETWEEN"
       THEN <<Raw(col), Lit(" BETWEEN "), Quoted(IterItems(val)[1]), Lit(" AND "),
              Quoted(IterItems(val)[2])>>
       ELSE <<Raw(col), Lit(" "), Raw(op), Lit(" "), Quoted(val)>>

\* lines 228-229: one item of the ORDER BY clause
OrderParts(order) == <<Raw(order.column), Lit(" "), Raw(Get(order, "direction", "ASC"))>>

\* the exceptions render raises: a missing key, a value that cannot be iterated or indexed
RenderRaises(pl) ==
    \/ \E i \in 1..Len(pl.filters) :
          LET f == pl.filters[i]
          IN \/ ~({"column", "operator", "value"} \subseteq DOMAIN f)
             \/ /\ f.operator = "IN"
                /\ f.value.t \notin {"list", "str"}
             \/ /\ f.operator = "BETWEEN"
                /\ \/ f.value.t \notin {"list", "str"}
                   \/ Len(IterItems(f.value)) < 2
    \/ \E i \in 1..Len(pl.order_by) : ~Has(pl.order_by[i], "column")

\* the separator the f-strings of lines 236-247 write: a backslash and an n
Sep == "\\n"

\* SqlRenderer.render as the sequence of its pieces
render_parts(db, pl) ==
    LET select_parts ==
            [i \in 1..Len(pl.dimensions) |-> <<Raw(pl.dimensions[i])>>]
            \o [i \in 1..Len(pl.measures) |-> MeasureParts(pl.measures[i])]
        select_list == IF Len(select_parts) = 0 THEN <<Lit("*")>>
                       ELSE JoinParts(", ", select_parts)
        from_clause == <<Qualified(_qualify_source(db, pl.source))>>
        where_conditions == [i \in 1..Len(pl.filters) |-> FilterParts(pl.filters[i])]
        group_by == IF Len(pl.dimensions) > 0 /\ Len(pl.measures) > 0
                    THEN <<Lit("GROUP BY ")>>
                         \o JoinParts(", ", [i \in 1..Len(pl.dimensions) |->
                                                 <<Raw(pl.dimensions[i])>>])
                    ELSE <<>>
        order_by == IF Len(pl.order_by) > 0
                    THEN <<Lit("ORDER BY ")>>
                         \o JoinParts(", ", [i \in 1..Len(pl.order_by) |->
                                                 OrderParts(pl.order_by[i])])
                    ELSE <<>>
        limit == IF TruthyInt(pl.top_n) THEN <<Lit("LIMIT "), Num(pl.top_n[1])>>
                 ELSE <<Lit("LIMIT 10000")>>
    IN <<Lit("SELECT ")>> \o select_list \o <<Lit(Sep \o "FROM ")>> \o from_clause
       \o (IF Len(where_conditions) > 0
           THEN <<Lit(Sep \o "WHERE ")>> \o JoinParts(" AND ", where_conditions) ELSE <<>>)
       \o (IF Len(group_by) > 0 THEN <<Lit(Sep)>> \o group_by ELSE <<>>)
       \o (IF Len(order_by) > 0 THEN <<Lit(Sep)>> \o order_by ELSE <<>>)
       \o <<Lit(Sep)>> \o limit

\* SqlRenderer.render: the SQL text
render(db, pl) == TextOf(render_parts(db, pl))

\* the _quote_value calls of one render, in order: [value, text]
QuoteCallsOf(db, pl) ==
    LET quoted == SelectSeq(render_parts(db, pl), LAMBDA part : part.src = "quoted")
    IN [i \in 1..Len(quoted) |-> [value |-> quoted[i].value, text |-> quoted[i].text]]

(***************************************************************************)
(* snowpark/mcp_server.py: the endpoints                                   *)
(***************************************************************************)
Exec(kind, sql) == [kind |-> kind, sql |-> sql]

\* SnowflakeManager.connect: the session parameters set on a new connection
ConnectStmts(c) ==
    IF c = "open" THEN <<>>
    ELSE <<Exec("session", "ALTER SESSION SET STATEMENT_TIMEOUT_IN_SECONDS = 30"),
           Exec("session", "ALTER SESSION SET USE_CACHED_RESULT = TRUE")>>

\* json.dumps of the tag dict of lines 441-445
TagJson(intent_text) ==
    "{\"mcp_tool\": \"compose_query_plan\", \"mcp_user\": \"unknown\", \"intent\": \""
    \o JsonEscape(SubSeq(intent_text, 1, Min(Len(intent_text), 100))) \o "\"}"

\* the statement of log_activity; the VALUES tuple (a fresh uuid, the instant,
\* the dumped plan) is not spelled out
ActivityInsert ==
    Exec("activity", "INSERT INTO CLAUDE_BI.ACTIVITY.EVENTS (activity_id, ts, customer, activity, feature_json)")

Http500(detail) == [status |-> 500, kind |-> "error", detail |-> detail]

\* line 420-428: the QueryPlan a compose request is turned into
PlanOfRequest(req) ==
    [source |-> IF IsNone(req.source) \/ Len(req.source[1]) = 0
                THEN "VW_ACTIVITY_SUMMARY" ELSE req.source[1],
     dimensions |-> req.dimensions,
     measures |-> req.measures,
     filters |-> req.filters,
     top_n |-> req.top_n,
     order_by |-> req.order_by]

\* the plan is rendered and run first, its validation errors looked at afterwards
compose_query_plan_late_check(db, c, req, wh) ==
    LET pl == PlanOfRequest(req)
        errors == validate_plan(pl)
        tagStmt == Exec("tag", "ALTER SESSION SET QUERY_TAG = '" \o TagJson(req.intent_text) \o "'")
    IN IF ~QueryPlanAccepts(pl) \/ RenderRaises(pl)
       THEN [response |-> Http500("failed"), executed |-> <<>>, conn |-> c, rendered |-> None]
       ELSE [response |-> IF Len(errors) > 0
                          THEN [status |-> 200, kind |-> "invalid", errors |-> errors]
                          ELSE [status |-> 200, kind |-> "success", plan |-> pl,
                                sql |-> render(db, pl)],
             executed |-> ConnectStmts(c)
                          \o <<tagStmt, Exec("query", render(db, pl)), ActivityInsert>>,
             conn |-> "open", rendered |-> Some(pl)]

\* compose_query_plan(request) on connection state c; wh names the warehouse
\* step that fails, if any.  Yields the response, the statements run, the
\* connection state after, and the plan rendered (None when render was not reached).
compose_query_plan(db, c, req, wh) ==
    LET pl == PlanOfRequest(req)
        errors == validate_plan(pl)
        sql == render(db, pl)
        tagStmt == Exec("tag", "ALTER SESSION SET QUERY_TAG = '" \o TagJson(req.intent_text) \o "'")
        queryStmt == Exec("query", sql)
    IN IF ~QueryPlanAccepts(pl)
       THEN [response |-> Http500("Row limit exceeds maximum of 10000"),
             executed |-> <<>>, conn |-> c, rendered |-> None]
       ELSE IF Len(errors) > 0
       THEN [response |-> [status |-> 200, kind |-> "invalid", errors |-> errors],
             executed |-> <<>>, conn |-> c, rendered |-> None]
       ELSE IF RenderRaises(pl)
       THEN [response |-> Http500("render failed"),
             executed |-> <<>>, conn |-> c, rendered |-> None]
       ELSE IF wh = "connect_fails" /\ c = "none"
       THEN [response |-> Http500(WarehouseError),
             executed |-> <<>>, conn |-> "none", rendered |-> Some(pl)]
       ELSE IF wh = "tag_fails"
       THEN [response |-> Http500(WarehouseError),
             executed |-> ConnectStmts(c) \o <<tagStmt>>, conn |-> "open",
             rendered |-> Some(pl)]
       ELSE IF wh = "query_fails"
       THEN [response |-> Http500(WarehouseError),
             executed |-> ConnectStmts(c) \o <<tagStmt, queryStmt>>, conn |-> "open",
             rendered |-> Some(pl)]
       ELSE [response |-> [status |-> 200, kind |-> "success", plan |-> pl, sql |-> sql],
             executed |-> ConnectStmts(c) \o <<tagStmt, queryStmt, ActivityInsert>>,
             conn |-> "open", rendered |-> Some(pl)]

\* validate_plan(plan) of line 470; a body the QueryPlan model rejects never
\* reaches the handler (422)
validate_plan_endpoint(db, pl) ==
    LET errors == validate_plan(pl)
    IN IF ~QueryPlanAccepts(pl)
       THEN [response |-> [status |-> 422, kind |-> "unprocessable"], rendered |-> None]
       ELSE IF Len(errors) > 0
       THEN [response |-> [status |-> 200, kind |-> "invalid", errors |-> errors],
             rendered |-> None]
       ELSE IF RenderRaises(pl)
       THEN [response |-> Http500("render failed"), rendered |-> None]
       ELSE [response |-> [status |-> 200, kind |-> "valid", plan |-> pl,
                           sql |-> render(db, pl)],
             rendered |-> Some(pl)]

(***************************************************************************)
(* The request bodies sent to the server.                                  *)
(***************************************************************************)
ValueSamples ==
    {VNone, VBool(TRUE), VBool(FALSE), VInt(0), VInt(42), VInt(0 - 7), VFloat(1, 5),
     VStr("user.login"), VStr("O'Brien"), VStr("' OR '1'='1"), VStr(""), VStr("''"),
     VList(<<VStr("a'b"), VInt(1)>>)}

FilterSamples ==
    {<<[column |-> "action", operator |-> "=", value |-> v]>> : v \in ValueSamples}
    \cup {<<[column |-> "action", operator |-> "IN",
             value |-> VList(<<VStr("a"), VStr("it's"), VInt(3), VBool(TRUE), VNone>>)]>>,
          <<[column |-> "ts", operator |-> "BETWEEN",
             value |-> VList(<<VStr("2025-01-01"), VStr("2025-01-02")>>)]>>,
          <<[column |-> "n", operator |-> "BETWEEN", value |-> VList(<<VInt(1)>>)]>>,
          <<[column |-> "n", operator |-> "IN", value |-> VInt(1)]>>,
          <<[column |-> "code", operator |-> "IN", value |-> VStr("a'")]>>,
          <<[column |-> "actor", operator |-> "="]>>,
          <<[column |-> "actor; DROP TABLE EVENTS --", operator |-> "=", value |-> VInt(1)]>>,
          <<[column |-> "actor", operator |-> "= 1 OR 1 ", value |-> VInt(1)]>>,
          <<[column |-> "a", operator |-> ">", value |-> VInt(1)],
            [column |-> "b", operator |-> "LIKE", value |-> VStr("x%")]>>}

SourceSamples ==
    {"ACTIVITY.EVENTS", "CLAUDE_BI.ACTIVITY.EVENTS", "ACTIVITY_CCODE.VW_ACTIVITY_SUMMARY",
     "VW_ACTIVITY_SUMMARY", "EVENTS", "ACTIVITY.SECRETS", "OTHER_DB.ACTIVITY.EVENTS",
     "A.B.C.D", "ACTIVITY.EVENTS; DROP TABLE X"}

TopNSamples == {None, Some(0), Some(1), Some(1000), Some(10000), Some(10001), Some(0 - 5)}

BaseRequest ==
    [intent_text |-> "show activity", source |-> Some("ACTIVITY.EVENTS"),
     dimensions |-> <<>>, measures |-> <<>>, filters |-> <<>>,
     top_n |-> Some(1000), order_by |-> <<>>]

RequestSamples ==
    {[BaseRequest EXCEPT !.source = Some(src)] : src \in SourceSamples}
    \cup {[BaseRequest EXCEPT !.source = None], [BaseRequest EXCEPT !.source = Some("")]}
    \cup {[BaseRequest EXCEPT !.filters = f] : f \in FilterSamples}
    \cup {[BaseRequest EXCEPT !.top_n = n] : n \in TopNSamples}
    \cup {[BaseRequest EXCEPT !.top_n = n, !.source = None] : n \in {Some(10001), Some(5)}}
    \cup {[BaseRequest EXCEPT !.dimensions = d, !.measures = m, !.order_by = o] :
             d \in {<<>>, <<"action">>, <<"action", "actor">>, <<"1; DROP TABLE X --">>},
             m \in {<<>>, <<[fn |-> "COUNT", column |-> "*"]>>,
                    <<EmptyDict, [fn |-> "SUM", column |-> "n); DELETE"]>>},
             o \in {<<>>, <<[column |-> "COUNT_ALL", direction |-> "DESC"]>>,
                    <<[column |-> "action"], [direction |-> "ASC"]>>}}

PlanSamples == {PlanOfRequest(req) : req \in RequestSamples}

ServerInit ==
    /\ request = [tool |-> "none"]
    /\ database = contract_database
    /\ conn = "none"
    /\ executed = <<>>
    /\ response = [status |-> 0, kind |-> "none"]
    /\ quote_calls = <<>>
    /\ render_memo = None

\* remember one rendered plan and its SQL, to compare later renders of it with
Memo(tool, rendered, resp) ==
    IF IsNone(render_memo) /\ ~IsNone(rendered) /\ resp.kind \in {"success", "valid"}
    THEN {render_memo, Some([tool |-> tool, plan |-> rendered[1], sql |-> resp.sql])}
    ELSE {render_memo}

\* no request is being served
ServerIdle == request.tool = "none"

ComposeQueryPlan ==
    \E req \in RequestSamples,
       wh \in {"ok", "connect_fails", "tag_fails", "query_fails", "log_fails"} :
        LET r == compose_query_plan(database, conn, req, wh)
        IN /\ ServerIdle
           /\ request' = [tool |-> "compose_query_plan", body |-> req,
                          plan |-> PlanOfRequest(req)]
           /\ response' = r.response
           /\ executed' = r.executed
           /\ conn' = r.conn
           /\ quote_calls' = IF IsNone(r.rendered) THEN <<>>
                             ELSE QuoteCallsOf(database, r.rendered[1])
           /\ render_memo' \in Memo("compose_query_plan", r.rendered, r.response)
           /\ UNCHANGED database
           /\ UNCHANGED otherThanServer

ValidatePlan ==
    \E pl \in PlanSamples :
        LET r == validate_plan_endpoint(database, pl)
        IN /\ ServerIdle
           /\ request' = [tool |-> "validate_plan", plan |-> pl]
           /\ response' = r.response
           /\ executed' = <<>>
           /\ quote_calls' = IF IsNone(r.rendered) THEN <<>>
                             ELSE QuoteCallsOf(database, r.rendered[1])
           /\ render_memo' \in Memo("validate_plan", r.rendered, r.response)
           /\ UNCHANGED <<database, conn>>
           /\ UNCHANGED otherThanServer

\* the response has been sent; the connection and the renderer live on
Respond ==
    /\ ~ServerIdle
    /\ request' = [tool |-> "none"]
    /\ response' = [status |-> 0, kind |-> "none"]
    /\ executed' = <<>>
    /\ quote_calls' = <<>>
    /\ UNCHANGED <<database, conn, render_memo>>
    /\ UNCHANGED otherThanServer

(***************************************************************************)
(* Text scanning: str.lower, `in`, and the regular expressions of the NL   *)
(* compilers, matched the way re.search matches them (leftmost, greedy).   *)
(***************************************************************************)
UpperLetters == "ABCDEFGHIJKLMNOPQRSTUVWXYZ"
LowerLetters == "abcdefghijklmnopqrstuvwxyz"

LowerChar(c) ==
    IF \E i \in 1..26 : CharAt(UpperLetters, i) = c
    THEN CharAt(LowerLetters, CHOOSE i \in 1..26 : CharAt(UpperLetters, i) = c)
    ELSE c

RECURSIVE lower(_)
\* text.lower()
lower(s) == IF Len(s) = 0 THEN "" ELSE LowerChar(Head(s)) \o lower(Tail(s))

WordChars ==
    {CharAt(UpperLetters, i) : i \in 1..26} \cup {CharAt(LowerLetters, i) : i \in 1..26}
    \cup {Digit(d) : d \in 0..9} \cup {"_"}

SpaceChars == {" ", "\t", "\n"}

\* the character classes \d, \s, [^\s], \w and [\w.-]
InClass(c, cls) ==
    CASE cls = "\\d" -> c \in {Digit(d) : d \in 0..9}
      [] cls = "\\s" -> c \in SpaceChars
      [] cls = "[^\\s]" -> c \notin SpaceChars
      [] cls = "\\w" -> c \in WordChars
      [] cls = "[\\w.-]" -> c \in WordChars \cup {".", "-"}

RECURSIVE RunEnd(_, _, _)
\* the position after the longest run of cls characters that starts at position i
RunEnd(s, i, cls) ==
    IF i <= Len(s) /\ InClass(CharAt(s, i), cls) THEN RunEnd(s, i + 1, cls) ELSE i

\* the literal p stands at position i of s
StartsAt(s, i, p) == i + Len(p) - 1 <= Len(s) /\ SubSeq(s, i, i + Len(p) - 1) = p

SetMin(S) == CHOOSE x \in S : \A y \in S : x <= y

RECURSIVE ParseDecimal(_, _)
\* int(digits), the digits read left to right onto acc
ParseDecimal(digits, acc) ==
    IF Len(digits) = 0 THEN acc
    ELSE ParseDecimal(Tail(digits), acc * 10 + (CHOOSE d \in 0..9 : Digit(d) = Head(digits)))

TimeUnits == <<"hour", "day", "minute">>

\* r'last (\d+)\s*(hours?|days?|minutes?)' tried at position i:
\* <<>> or <<[digits, unit]>> with unit = group(2).rstrip('s')
TimeMatchAt(s, i) ==
    IF ~StartsAt(s, i, "last ") THEN <<>>
    ELSE LET d0 == i + 5
             d1 == RunEnd(s, d0, "\\d")
             u0 == RunEnd(s, d1, "\\s")
             units == SelectSeq(TimeUnits, LAMBDA u : StartsAt(s, u0, u))
         IN IF d1 = d0 \/ Len(units) = 0 THEN <<>>
            ELSE <<[digits |-> SubSeq(s, d0, d1 - 1), unit |-> units[1]]>>

\* re.search of the time pattern: the leftmost match
TimeMatch(s) ==
    LET hits == {i \in 1..Len(s) : Len(TimeMatchAt(s, i)) > 0}
    IN IF hits = {} THEN <<>> ELSE TimeMatchAt(s, SetMin(hits))

\* keyword, \s+, ([^\s]+) tried at position i: <<>> or <<group(1)>>
KeywordArgAt(s, i, keyword) ==
    IF ~StartsAt(s, i, keyword) THEN <<>>
    ELSE LET s0 == i + Len(keyword)
             a0 == RunEnd(s, s0, "\\s")
             a1 == RunEnd(s, a0, "[^\\s]")
         IN IF a0 = s0 \/ a1 = a0 THEN <<>> ELSE <<SubSeq(s, a0, a1 - 1)>>

\* re.search(r'(?:k1|k2|...)\s+([^\s]+)'): the leftmost match, the alternatives in order
KeywordArg(s, keywords) ==
    LET at(i) == LET found == SelectSeq(keywords, LAMBDA k : Len(KeywordArgAt(s, i, k)) > 0)
                 IN IF Len(found) = 0 THEN <<>> ELSE KeywordArgAt(s, i, found[1])
        hits == {i \in 1..Len(s) : Len(at(i)) > 0}
    IN IF hits = {} THEN <<>> ELSE at(SetMin(hits))

(***************************************************************************)
(* stage/coo_dashboard.py: parse_natural_language                          *)
(***************************************************************************)
\* datetime.min as a clock value: 0001-01-01T00:00, 739251 days before 2025
MinClock == 0 - (739251 * 1440)

UnitMinutes(unit) == IF unit = "hour" THEN 60 ELSE IF unit = "day" THEN 1440 ELSE 1

\* `now - timedelta(<unit>s=amount)` leaves the range of datetime: OverflowError
DeltaOverflows(t, amount, unit) == amount > (t - MinClock) \div UnitMinutes(unit)

OverflowError == "date value out of range"

\* get_iso_timestamp(delta) read at clock t, delta in minutes
get_iso_timestamp(t, delta) == isoformat(t - delta)

\* d[k] = v, d["filters"][k] = v, the two bounds of the range, and d.pop(k), each
\* under the condition of the if statement it stands in
PutIf(cond, d, k, v) == IF cond THEN Put(d, k, v) ELSE d

PutFilterIf(cond, d, k, v) == IF cond THEN [d EXCEPT !.filters = Put(@, k, v)] ELSE d

PutRangeIf(cond, d, start_ts, end_ts) ==
    IF cond THEN [d EXCEPT !.start_ts = start_ts, !.end_ts = end_ts] ELSE d

PopIf(cond, d, k) == IF cond THEN [x \in (DOMAIN d) \ {k} |-> d[x]] ELSE d

\* parse_natural_language(text): the first clock read shows t1, the second t2;
\* [kind, error, plan] (the confirmation sentence returned with the plan is left out)
parse_natural_language(text, t1, t2) ==
    LET low == lower(text)
        time_match == TimeMatch(low)
        timed == Len(time_match) > 0
        amount == ParseDecimal(time_match[1].digits, 0)
        unit == time_match[1].unit
        params0 == IF timed
                   THEN [start_ts |-> get_iso_timestamp(t1, amount * UnitMinutes(unit)),
                         end_ts |-> get_iso_timestamp(t2, 0),
                         interval |-> IF unit = "hour" THEN "hour" ELSE "day",
                         filters |-> EmptyDict]
                   ELSE [start_ts |-> get_iso_timestamp(t1, 24 * 60),
                         end_ts |-> get_iso_timestamp(t2, 0),
                         interval |-> "hour", filters |-> EmptyDict]
        user_match == KeywordArg(low, <<"user", "actor">>)
        params1 == PutFilterIf(Len(user_match) > 0 /\ timed, params0, "actor", user_match[1])
        action_match == KeywordArg(low, <<"actions", "action">>)
        params2 == PutFilterIf(Len(action_match) > 0 /\ timed, params1, "action",
                               action_match[1])
        adjust == IF Contains(low, "by hour") THEN <<"hour">>
                  ELSE IF Contains(low, "by day") THEN <<"day">>
                  ELSE IF Contains(low, "15 min") \/ Contains(low, "fifteen min")
                  THEN <<"15 minute">>
                  ELSE <<>>
        params3 == PutIf(Len(adjust) > 0 /\ timed, params2, "interval", adjust[1])
    IN IF timed /\ DeltaOverflows(t1, amount, unit)
       THEN [kind |-> "raised", error |-> OverflowError]
       ELSE [kind |-> "returned", error |-> "",
             plan |-> [plan_version |-> "1.0", proc |-> "DASH_GET_SERIES",
                       params |-> params3]]

(***************************************************************************)
(* tests/test_nl_compiler.py: parse_natural_language_simple                *)
(***************************************************************************)
\* r'[\w.-]+@[\w.-]+\.\w+' tried at position i: <<>> or <<group(0)>>
EmailAt(s, i) ==
    LET l1 == RunEnd(s, i, "[\\w.-]")
        d0 == l1 + 1
        d1 == RunEnd(s, d0, "[\\w.-]")
        dots == {k \in (d0 + 1)..(d1 - 1) :
                    CharAt(s, k) = "." /\ k + 1 <= Len(s) /\ InClass(CharAt(s, k + 1), "\\w")}
        dot == CHOOSE k \in dots : \A j \in dots : j <= k
    IN IF l1 = i \/ l1 > Len(s) \/ CharAt(s, l1) # "@" \/ dots = {} THEN <<>>
       ELSE <<SubSeq(s, i, RunEnd(s, dot + 1, "\\w") - 1)>>

\* re.search of the e-mail pattern: the leftmost match
EmailMatch(s) ==
    LET hits == {i \in 1..Len(s) : Len(EmailAt(s, i)) > 0}
    IN IF hits = {} THEN <<>> ELSE EmailAt(s, SetMin(hits))

\* re.search(r's3://[^\s]+')
CohortMatch(s) ==
    LET at(i) == IF StartsAt(s, i, "s3://") /\ RunEnd(s, i + 5, "[^\\s]") > i + 5
                 THEN <<SubSeq(s, i, RunEnd(s, i + 5, "[^\\s]") - 1)>> ELSE <<>>
        hits == {i \in 1..Len(s) : Len(at(i)) > 0}
    IN IF hits = {} THEN <<>> ELSE at(SetMin(hits))

\* now.replace(hour=0, minute=0, second=0, microsecond=0)
StartOfDay(t) == t - FloorMod(t, 1440)

\* parse_natural_language_simple(text); rd[i] is what the i-th datetime.now()
\* of the function's text shows (lines 28, 29, 50, 51, 55); [kind, error, plan]
parse_natural_language_simple(text, rd) ==
    LET low == lower(text)
        params0 == [start_ts |-> isoformat(rd[1] - 24 * 60), end_ts |-> isoformat(rd[2]),
                    interval |-> "hour", filters |-> EmptyDict]
        time_match == TimeMatch(low)
        timed == Len(time_match) > 0
        amount == ParseDecimal(time_match[1].digits, 0)
        unit == time_match[1].unit
        params1 == PutRangeIf(timed, params0,
                              isoformat(rd[3] - amount * UnitMinutes(unit)), isoformat(rd[4]))
        params2 == PutRangeIf(Contains(low, "today"), params1,
                              isoformat(StartOfDay(rd[5])), isoformat(rd[5]))
        top == Contains(low, "top")
        dimension == IF Contains(low, "action") THEN "action"
                     ELSE IF Contains(low, "user") \/ Contains(low, "actor") THEN "actor"
                     ELSE IF Contains(low, "source") THEN "source"
                     ELSE "action"
        params3 == PutIf(top, PutIf(top, params2, "n", 10), "dimension", dimension)
        email_match == EmailMatch(text)
        params4 == PutFilterIf(Len(email_match) > 0, params3, "actor", email_match[1])
        cohort_match == CohortMatch(text)
        params5 == PutFilterIf(Len(cohort_match) > 0, params4, "cohort_url", cohort_match[1])
        adjust == IF Contains(low, "by hour") \/ Contains(low, "hourly") THEN <<"hour">>
                  ELSE IF Contains(low, "by day") \/ Contains(low, "daily") THEN <<"day">>
                  ELSE IF Contains(low, "15 min") \/ Contains(low, "fifteen min")
                  THEN <<"15 minute">>
                  ELSE <<>>
        params6 == PutIf(Len(adjust) > 0, params5, "interval", adjust[1])
        metrics == Contains(low, "metric") \/ Contains(low, "summary")
    IN IF timed /\ DeltaOverflows(rd[3], amount, unit)
       THEN [kind |-> "raised", error |-> OverflowError]
       ELSE [kind |-> "returned", error |-> "",
             plan |-> [plan_version |-> "1.0",
                       proc |-> IF metrics THEN "DASH_GET_METRICS"
                                ELSE IF top THEN "DASH_GET_TOPN" ELSE "DASH_GET_SERIES",
                       params |-> PopIf(metrics, params6, "interval")]]

(***************************************************************************)
(* The NL compilers as a state machine: one action per call, on the wall   *)
(* clock of the dashboard.  The clock may tick between two reads of it     *)
(* inside one call.                                                        *)
(***************************************************************************)
NLTexts ==
    {"top actions today", "top users", "top sources", "top 10 actions",
     "show trends over time", "summary metrics", "activity by hour", "most active users",
     "last 48 hours by hour", "hone in on user acme_coo@company.com last 48h by hour",
     "use cohort s3://stage/cohorts/members.jsonl last 7d", "show last 24 hours",
     "activity for last 7 days", "events from last 30 minutes", "metrics for today",
     "Last 400 Days by day", "last 99999999 days", "top actions today last 7 days",
     "summary of last 48 hours by hour", "every 15 minutes",
     "last 5 hours for user bob actions login", "", "stop", "last 0 minutes",
     "top actors today last 99999999 hours", "show activity"}

\* the clock values n successive reads show when the clock ticks before read number tickAt
Reads(t, n, tickAt) == [i \in 1..n |-> IF i >= tickAt THEN t + 1 ELSE t]

NoPlan == EmptyDict

NLInit ==
    /\ nl_compiler = "none"
    /\ nl_text = ""
    /\ nl_plan = NoPlan
    /\ nl_outcome = NoOutcome

NLIdle == nl_compiler = "none"

ParseNaturalLanguage ==
    \E text \in NLTexts, tickAt \in 2..3 :
        LET rd == Reads(now, 2, tickAt)
            r == parse_natural_language(text, rd[1], rd[2])
        IN /\ NLIdle
           /\ tickAt > 2 \/ now < StartClock + MaxTicks
           /\ nl_compiler' = "parse_natural_language"
           /\ nl_text' = text
           /\ nl_plan' = IF r.kind = "returned" THEN r.plan ELSE NoPlan
           /\ nl_outcome' = [kind |-> r.kind, error |-> r.error, clock |-> rd]
           /\ now' = rd[2]
           /\ UNCHANGED callVars
           /\ UNCHANGED otherThanNL

ParseNaturalLanguageSimple ==
    \E text \in NLTexts, tickAt \in 2..6 :
        LET rd == Reads(now, 5, tickAt)
            r == parse_natural_language_simple(text, rd)
        IN /\ NLIdle
           /\ tickAt > 5 \/ now < StartClock + MaxTicks
           /\ nl_compiler' = "parse_natural_language_simple"
           /\ nl_text' = text
           /\ nl_plan' = IF r.kind = "returned" THEN r.plan ELSE NoPlan
           /\ nl_outcome' = [kind |-> r.kind, error |-> r.error, clock |-> rd]
           /\ now' = rd[5]
           /\ UNCHANGED callVars
           /\ UNCHANGED otherThanNL

\* the caller has taken the plan; the next call starts afresh
NLReturn ==
    /\ ~NLIdle
    /\ nl_compiler' = "none"
    /\ nl_text' = ""
    /\ nl_plan' = NoPlan
    /\ nl_outcome' = NoOutcome
    /\ UNCHANGED dashVars
    /\ UNCHANGED otherThanNL

(***************************************************************************)
(* scripts/schedule-executor.py: the event log the executor reads.  An     *)
(* event row carries the attributes the query of get_due_schedules looks   *)
(* at; an attribute the payload lacks is NULL (None).                      *)
(***************************************************************************)
ScheduleCreated(schedule_id, dashboard_id, frequency, deliveries, next_run, occurred_at) ==
    [action |-> "dashboard.schedule_created", schedule_id |-> schedule_id,
     dashboard_id |-> dashboard_id, frequency |-> frequency, deliveries |-> deliveries,
     next_run |-> next_run, occurred_at |-> occurred_at]

SnapshotGenerated(schedule_id, dashboard_id, occurred_at) ==
    [action |-> "dashboard.snapshot_generated", schedule_id |-> Some(schedule_id),
     dashboard_id |-> dashboard_id, frequency |-> "", deliveries |-> None,
     next_run |-> None, occurred_at |-> occurred_at]

\* DATEADD('day', -30, ...) and DATEADD('hour', -1, ...), in minutes of the clock
ScheduleWindow == 30 * 1440
Cooldown == 60
\* time.sleep(60), in minutes of the clock
PollInterval == 1

\* lines 58-71: schedule_events, as positions in the log
schedule_events(evts, t) ==
    {i \in 1..Len(evts) : /\ evts[i].action = "dashboard.schedule_created"
                          /\ evts[i].occurred_at >= t - ScheduleWindow}

\* lines 72-79, 99: the rows with rn = 1, the latest schedule event of each dashboard
\* (the histories of the model hold no two schedule events of one instant)
latest_schedules(evts, t) ==
    {i \in schedule_events(evts, t) :
        \A j \in schedule_events(evts, t) :
            evts[j].dashboard_id = evts[i].dashboard_id
                => evts[j].occurred_at <= evts[i].occurred_at}

\* lines 80-87, 98: last_runs joined on schedule_id; NULL joins nothing
last_run_at(evts, schedule_id) ==
    LET runs == {i \in 1..Len(evts) : /\ evts[i].action = "dashboard.snapshot_generated"
                                      /\ ~IsNone(schedule_id)
                                      /\ evts[i].schedule_id = schedule_id}
    IN IF runs = {} THEN None
       ELSE Some(CHOOSE m \in {evts[i].occurred_at : i \in runs} :
                     \A i \in runs : evts[i].occurred_at <= m)

\* lines 88-96: the columns of a result row that process_schedule and the log read
ScheduleRow(evts, i) ==
    [SCHEDULE_ID |-> evts[i].schedule_id, DASHBOARD_ID |-> evts[i].dashboard_id,
     FREQUENCY |-> evts[i].frequency, DELIVERIES |-> evts[i].deliveries, NEXT_RUN |-> evts[i].next_run,
     LAST_RUN_AT |-> last_run_at(evts, evts[i].schedule_id)]

\* every order a query without ORDER BY can return the rows S in
Orderings(S) ==
    {q \in [1..Cardinality(S) -> S] : \A x \in S : \E i \in 1..Cardinality(S) : q[i] = x}

\* the query with the condition on last_run_at left out
get_due_schedules_no_cooldown(evts, t, wh) ==
    IF wh = "query_fails" THEN {<<>>}
    ELSE Orderings({ScheduleRow(evts, i) : i \in
            {i \in latest_schedules(evts, t) :
                /\ ~IsNone(evts[i].next_run)
                /\ evts[i].next_run[1] <= t}})

\* get_due_schedules() at the instant t: the results it can return
get_due_schedules(evts, t, wh) ==
    IF wh = "query_fails" THEN {<<>>}
    ELSE Orderings({ScheduleRow(evts, i) : i \in
            {i \in latest_schedules(evts, t) :
                /\ LET r == last_run_at(evts, evts[i].schedule_id)
                   IN IsNone(r) \/ r[1] < t - Cooldown
                /\ ~IsNone(evts[i].next_run)
                /\ evts[i].next_run[1] <= t}})

(***************************************************************************)
(* scripts/schedule-executor.py: process_schedule and what it calls        *)
(***************************************************************************)
\* str(x) inside an f-string, for a value that may be None
PyStrOpt(o) == IF IsNone(o) THEN "None" ELSE o[1]

\* json.loads of the text of an array of strings: <<TRUE, items>>, or <<FALSE, <<>>>>
\* where it raises
json_loads_array(text) ==
    LET bare == Replace(Replace(text, " ", ""), "\n", "")
        inner == SubSeq(bare, 2, Len(bare) - 1)
        items == IF inner = "" THEN <<>> ELSE Split(inner, ",")
        quoted(x) == Len(x) >= 2 /\ CharAt(x, 1) = "\"" /\ CharAt(x, Len(x)) = "\""
    IN IF /\ Len(bare) >= 2
          /\ CharAt(bare, 1) = "["
          /\ CharAt(bare, Len(bare)) = "]"
          /\ \A k \in 1..Len(items) : quoted(items[k])
       THEN <<TRUE, [k \in 1..Len(items) |-> SubSeq(items[k], 2, Len(items[k]) - 1)]>>
       ELSE <<FALSE, <<>>>>

\* strftime('%Y%m%d_%H%M%S')
strftime_compact(t) ==
    LET yd == YearOf(FloorDiv(t, 1440), 2025)
        md == MonthOf(yd[1], yd[2], 1)
    IN Pad4(yd[1]) \o Pad2(md[1]) \o Pad2(md[2]) \o "_"
         \o Pad2(FloorMod(t, 1440) \div 60) \o Pad2(FloorMod(t, 60)) \o "00"

\* generate_snapshot(dashboard_data)
generate_snapshot(dashboard_data, t) ==
    [snapshot_id |-> "snap_" \o strftime_compact(t),
     path |-> "@MCP.DASH_SNAPSHOTS/snap_" \o strftime_compact(t) \o ".json",
     format |-> "json",
     data |-> dashboard_data]

\* deliver_snapshot(snapshot, deliveries): the channels it would send to
deliver_snapshot(deliveries) ==
    SelectSeq(deliveries, LAMBDA d : d \in {"email", "slack"})

\* VW_DASHBOARDS: the panels of each saved dashboard
Panel(title, proc) == [title |-> title, plan |-> [proc |-> proc, params |-> EmptyDict]]

VW_DASHBOARDS ==
    [dashboard_id \in {"dash_ops", "dash_sales"} |->
        IF dashboard_id = "dash_ops"
        THEN <<Panel("Overview", "DASH_GET_METRICS"), Panel("Trend", "DASH_GET_SERIES"),
               Panel("Top actions", "DASH_GET_TOPN")>>
        ELSE <<Panel("Top actors", "DASH_GET_TOPN"), Panel("Overview", "DASH_GET_METRICS")>>]

\* the step of process_schedule the environment makes raise
Faults == {"none", "fields", "execute_spec", "execute_panel", "generate", "deliver", "log"}

Step(name, index) == [step |-> name, index |-> index]

Info(msg) == [level |-> "INFO", msg |-> msg]
Warn(msg) == [level |-> "WARNING", msg |-> msg]
Err(msg) == [level |-> "ERROR", msg |-> msg]

\* what one call has done so far
Progress(steps, logs, panels, results, delivered, appended, error) ==
    [steps |-> steps, logs |-> logs, panels |-> panels, results |-> results,
     delivered |-> delivered, appended |-> appended, error |-> error]

\* lines 255-276, the body of the try block: error is the exception that leaves it
\* ("" when none does); of the logger's INFO lines only the closing one of line 276
\* is kept
ProcessBody(schedule, dashboards, fault, t) ==
    IF ~({"SCHEDULE_ID", "DASHBOARD_ID", "DELIVERIES"} \subseteq DOMAIN schedule)
    THEN Progress(<<>>, <<>>, <<>>, <<>>, <<>>, <<>>, "KeyError")
    ELSE
    LET schedule_id == schedule.SCHEDULE_ID
        dashboard_id == schedule.DASHBOARD_ID
        loaded == IF IsNone(schedule.DELIVERIES) THEN <<TRUE, None>>
                  ELSE json_loads_array(schedule.DELIVERIES[1])
        found == dashboard_id \in DOMAIN dashboards
        panels == IF found THEN dashboards[dashboard_id] ELSE <<>>
        fail_at == IF fault = "execute_spec" THEN 1
                   ELSE IF fault = "execute_panel" THEN 2 ELSE 0
        d == execute_dashboard(dashboard_id, found, panels, fail_at)
        ran == ExecutedPanels(panels, 1)
        nstmts == Len(d.stmts) - 1
        panel_steps == [k \in 1..nstmts |-> Step("panel", ran[k])]
        steps1 == <<Step("spec", 0)>> \o panel_steps
        titles == [k \in 1..Len(panels) |-> Get(panels[k], "title", "Untitled")]
        snapshot == generate_snapshot([dashboard_id |-> dashboard_id, results |-> d.results], t)
        row_count == Len(snapshot.data.results)
        event == SnapshotGenerated(PyStrOpt(schedule_id), dashboard_id, t)
    IN IF fault = "fields" \/ ~loaded[1]
       THEN Progress(<<>>, <<>>, <<>>, <<>>, <<>>, <<>>, "ValueError")
       ELSE IF d.outcome.kind # "returned"
       THEN Progress(steps1,
                     <<IF d.outcome.error = "Dashboard " \o dashboard_id \o " not found"
                       THEN Warn(d.outcome.error) ELSE Err(d.outcome.error),
                       Warn("Failed to execute dashboard " \o dashboard_id)>>,
                     titles, <<>>, <<>>, <<>>, "")
       ELSE IF fault = "generate"
       THEN Progress(steps1, <<>>, titles, <<>>, <<>>, <<>>, "RuntimeError")
       ELSE IF fault = "deliver" \/ IsNone(loaded[2])
       THEN Progress(steps1 \o <<Step("snapshot", row_count)>>, <<>>, titles,
                     snapshot.data.results, <<>>, <<>>,
                     IF fault = "deliver" THEN "RuntimeError" ELSE "TypeError")
       ELSE IF fault = "log"
       THEN Progress(steps1 \o <<Step("snapshot", row_count), Step("deliver", 0)>>,
                     <<Err("Error logging snapshot: " \o WarehouseError),
                       Info("Successfully processed schedule " \o PyStrOpt(schedule_id))>>,
                     titles,
                     snapshot.data.results, deliver_snapshot(loaded[2]), <<>>, "")
       ELSE Progress(steps1 \o <<Step("snapshot", row_count), Step("deliver", 0),
                                 Step("log", row_count)>>,
                     <<Info("Successfully processed schedule " \o PyStrOpt(schedule_id))>>,
                     titles, snapshot.data.results, deliver_snapshot(loaded[2]),
                     <<event>>, "")

\* process_schedule without its try/except: the exception leaves the call
process_schedule_unguarded(schedule, dashboards, fault, t) ==
    LET b == ProcessBody(schedule, dashboards, fault, t)
    IN [body |-> b, raised |-> b.error # ""]

\* process_schedule(schedule): raised says whether an exception leaves the call
process_schedule(schedule, dashboards, fault, t) ==
    LET b == ProcessBody(schedule, dashboards, fault, t)
    IN IF b.error = "" THEN [body |-> b, raised |-> FALSE]
       ELSE IF "SCHEDULE_ID" \in DOMAIN schedule
       THEN [body |-> [b EXCEPT !.logs = @ \o <<Err("Error processing schedule "
                                    \o PyStrOpt(schedule.SCHEDULE_ID) \o ": " \o b.error)>>],
             raised |-> FALSE]
       ELSE [body |-> b, raised |-> TRUE]

(***************************************************************************)
(* The event logs the executor can find when it connects, at the instant t *)
(***************************************************************************)
ScheduleIdOf(dashboard_id) == "sched_test_" \o dashboard_id

EmailAndSlack == Some("[\n  \"email\",\n  \"slack\"\n]")

\* the schedule histories of one dashboard
ScheduleHistories(dashboard_id, t) ==
    LET sid == Some(ScheduleIdOf(dashboard_id))
        made(next_run, at) ==
            ScheduleCreated(sid, dashboard_id, "DAILY", EmailAndSlack, Some(next_run), at)
        ran(at) == SnapshotGenerated(sid[1], dashboard_id, at)
    IN {<<>>,
        \* due and never run
        <<made(t - 10, t - 100)>>,
        \* due one cycle from now
        <<made(t + PollInterval, t - 100)>>,
        \* run one hour ago, and a little more than one hour ago
        <<made(t - 250, t - 300), ran(t - Cooldown)>>,
        <<made(t - 250, t - 300), ran(t - 240), ran(t - Cooldown - 1)>>,
        \* created thirty days ago
        <<made(t - ScheduleWindow + 120, t - ScheduleWindow)>>,
        \* replaced by a later schedule of the same dashboard
        <<made(t - 10, t - 100), made(t + 1000, t - 50)>>,
        \* created by the schedule dialog of the dashboard, which writes neither
        \* schedule_id nor next_run (stage/coo_dashboard.py, lines 855-863)
        <<ScheduleCreated(None, dashboard_id, "DAILY", EmailAndSlack, None, t - 20)>>}

\* a second dashboard: not scheduled, or due and never run
FewHistories(dashboard_id, t) ==
    {<<>>,
     <<ScheduleCreated(Some(ScheduleIdOf(dashboard_id)), dashboard_id, "WEEKLY",
                       EmailAndSlack, Some(t - 15), t - 90)>>}

\* dash_gone is scheduled but no longer saved in VW_DASHBOARDS
EventLogs(t) ==
    {a \o b : a \in ScheduleHistories("dash_ops", t),
              b \in FewHistories("dash_sales", t) \cup FewHistories("dash_gone", t)}

(***************************************************************************)
(* ScheduleExecutor.run as a state machine                                 *)
(***************************************************************************)
MaxCycles == 2

PollerInit ==
    /\ executor = "init"
    /\ events = <<>>
    /\ schedules = <<>>
    /\ fetched = [rows |-> <<>>, at |-> 0, wh |-> "none"]
    /\ cycle_log = <<>>
    /\ prev_log = <<>>
    /\ cycles = 0

\* connect(): the executor is attached to a warehouse, whose event log has a history
Connect ==
    \E history \in EventLogs(now) :
        /\ executor = "init"
        /\ executor' = "fetch"
        /\ events' = history
        /\ UNCHANGED <<schedules, fetched, cycle_log, prev_log, cycles>>
        /\ UNCHANGED <<dashVars, serverVars, nlVars, schedVars, chatVars, uiVars>>

\* run, line 288: schedules = self.get_due_schedules()
GetDueSchedules ==
    \E wh \in {"ok", "query_fails"} :
        \E rows \in get_due_schedules(events, now, wh) :
            /\ executor = "fetch"
            /\ executor' = "process"
            /\ schedules' = rows
            /\ fetched' = [rows |-> rows, at |-> now, wh |-> wh]
            /\ cycle_log' = <<>>
            /\ UNCHANGED <<events, prev_log, cycles>>
            /\ UNCHANGED <<dashVars, serverVars, nlVars, schedVars, chatVars, uiVars>>

\* what the log of a cycle keeps of one process_schedule call
LogEntry(schedule, r, fault, t, events_before) ==
    [schedule_id |-> schedule.SCHEDULE_ID, dashboard_id |-> schedule.DASHBOARD_ID,
     frequency |-> schedule.FREQUENCY, next_run |-> schedule.NEXT_RUN,
     delivered |-> r.body.delivered, fault |-> fault, started_at |-> t, events_before |-> events_before,
     steps |-> r.body.steps, logs |-> r.body.logs, panels |-> r.body.panels,
     results |-> r.body.results, error |-> r.body.error,
     completed |-> r.body.appended # <<>>, raised |-> r.raised,
     failed |-> \/ r.body.error # ""
                \/ \A k \in 1..Len(r.body.steps) : r.body.steps[k].step # "snapshot"]

\* run, lines 291-292 and 301-303: one turn of the for loop; an exception that
\* leaves process_schedule ends the cycle in run's handler
ProcessSchedule ==
    \E fault \in Faults :
        LET schedule == Head(schedules)
            r == process_schedule(schedule, VW_DASHBOARDS, fault, now)
        IN /\ executor = "process"
           /\ schedules # <<>>
           /\ events' = events \o r.body.appended
           /\ cycle_log' = Append(cycle_log, LogEntry(schedule, r, fault, now, Len(events)))
           /\ schedules' = IF r.raised THEN <<>> ELSE Tail(schedules)
           /\ UNCHANGED <<executor, fetched, prev_log, cycles>>
           /\ UNCHANGED <<dashVars, serverVars, nlVars, schedVars, chatVars, uiVars>>

\* run, lines 295-296 and 303: time.sleep(60), then the next cycle
Sleep ==
    /\ executor = "process"
    /\ schedules = <<>>
    /\ cycles < MaxCycles
    /\ executor' = "fetch"
    /\ now' = now + PollInterval
    /\ cycles' = cycles + 1
    /\ prev_log' = [k \in 1..Len(cycle_log) |->
                       [schedule_id |-> cycle_log[k].schedule_id,
                        dashboard_id |-> cycle_log[k].dashboard_id,
                        completed |-> cycle_log[k].completed,
                        delivered |-> cycle_log[k].delivered,
                        failed |-> cycle_log[k].failed]]
    /\ UNCHANGED <<events, schedules, fetched, cycle_log>>
    /\ UNCHANGED <<callVars, serverVars, nlVars, schedVars, chatVars, uiVars>>

\* run, lines 298-300 and 305-307: KeyboardInterrupt during the sleep ends the loop
Interrupt ==
    /\ executor = "process"
    /\ schedules = <<>>
    /\ executor' = "stopped"
    /\ UNCHANGED <<events, schedules, fetched, cycle_log, prev_log, cycles>>
    /\ UNCHANGED <<dashVars, serverVars, nlVars, schedVars, chatVars, uiVars>>

(***************************************************************************)
(* Schedule creation                                                       *)
(***************************************************************************)
\* datetime.weekday(): Monday is 0; 2025-01-01, the clock's zero, is a Wednesday
weekday(t) == (FloorDiv(t, 1440) + 2) % 7

\* minutes to add to UTC for the wall clock of a zone (daylight time, as in March 2025)
UtcOffset(timezone_str) ==
    IF timezone_str = "America/New_York" THEN 0 - 240
    ELSE IF timezone_str = "America/Chicago" THEN 0 - 300
    ELSE IF timezone_str = "America/Denver" THEN 0 - 360
    ELSE 0 - 420

\* now.replace(hour=hour, minute=minute) on a wall clock
ReplaceTime(t, hour, minute) == StartOfDay(t) + hour * 60 + minute

RECURSIVE SkipWeekend(_)
\* tests/test_schedule_flow.py, lines 44-45: while next_run.weekday() >= 5
SkipWeekend(next_run) ==
    IF weekday(next_run) >= 5 THEN SkipWeekend(next_run + 1440) ELSE next_run

\* tests/test_schedule_flow.py, MockScheduleExecutor.create_schedule_event at the
\* instant t (UTC); next_run is on the wall clock of the zone.  The event is logged
\* with next_run.isoformat(), the text of an aware datetime, which the warehouse reads
\* back as the instant next_run - UtcOffset; attributes are the keys of the payload's
\* attributes object.
create_schedule_event(dashboard_id, frequency, time, timezone_str, t) ==
    LET now_local == t + UtcOffset(timezone_str)
        hour == ParseDecimal(Split(time, ":")[1], 0)
        minute == ParseDecimal(Split(time, ":")[2], 0)
        replaced == ReplaceTime(now_local, hour, minute)
        candidate == IF replaced <= now_local THEN replaced + 1440 ELSE replaced
        next_run == IF frequency = "WEEKDAYS" THEN SkipWeekend(candidate) ELSE candidate
    IN [creator |-> "create_schedule_event", frequency |-> frequency, time |-> time,
        timezone |-> timezone_str, now_local |-> now_local, next_run |-> next_run,
        attributes |-> {"schedule_id", "dashboard_id", "frequency", "time", "timezone",
                        "deliveries", "next_run"},
        event |-> ScheduleCreated(Some("sched_test_" \o dashboard_id), dashboard_id,
                                  frequency, EmailAndSlack, Some(next_run - UtcOffset(timezone_str)), t)]

\* stage/coo_dashboard.py, render_schedule_modal after "Create Schedule": t1 and t2
\* are the two datetime.now() reads of lines 870 and 874 (naive, the server's clock,
\* taken as UTC); replace() keeps the seconds of the first read, and later says
\* whether they are behind the seconds of the second read
render_schedule_modal(frequency, time, timezone_str, t1, t2, later) ==
    LET hour == ParseDecimal(Split(time, ":")[1], 0)
        minute == ParseDecimal(Split(time, ":")[2], 0)
        replaced == ReplaceTime(t1, hour, minute)
        next_run == IF replaced < t2 \/ (replaced = t2 /\ later)
                    THEN replaced + 1440 ELSE replaced
    IN [creator |-> "render_schedule_modal", frequency |-> frequency, time |-> time,
        timezone |-> timezone_str, now_local |-> t2, next_run |-> next_run,
        attributes |-> {"dashboard_id", "frequency", "time", "timezone", "display_tz",
                        "deliveries", "dedupe_key"},
        event |-> ScheduleCreated(None, "dash_ops", frequency, EmailAndSlack, None, t1)]

Frequencies == {"DAILY", "WEEKDAYS", "WEEKLY"}
TimeInputs == {"07:00", "09:30", "09:31", "18:00"}
TimeZones == {"America/New_York", "America/Chicago"}

MaxDays == 6

NoSchedule ==
    [creator |-> "none", frequency |-> "", time |-> "", timezone |-> "", now_local |-> 0,
     next_run |-> 0, attributes |-> {}, event |-> ScheduleCreated(None, "", "", None, None, 0)]

SchedInit == created = NoSchedule

SchedIdle == created.creator = "none"

\* a day passes
NextDay ==
    /\ SchedIdle
    /\ now < StartClock + MaxDays * 1440
    /\ now' = now + 1440
    /\ UNCHANGED created
    /\ UNCHANGED <<callVars, serverVars, nlVars, pollerVars, chatVars, uiVars>>

CreateScheduleEvent ==
    \E frequency \in Frequencies, time \in TimeInputs, timezone_str \in TimeZones :
        /\ SchedIdle
        /\ created' = create_schedule_event("dash_ops", frequency, time, timezone_str, now)
        /\ UNCHANGED <<dashVars, serverVars, nlVars, pollerVars, chatVars, uiVars>>

RenderScheduleModal ==
    \E frequency \in Frequencies, time \in TimeInputs, timezone_str \in TimeZones,
       tickAt \in 2..3, later \in BOOLEAN :
        LET rd == Reads(now, 2, tickAt)
        IN /\ SchedIdle
           /\ tickAt > 2 \/ FloorMod(now - StartClock, 1440) < MaxTicks
           /\ created' = render_schedule_modal(frequency, time, timezone_str, rd[1], rd[2],
                                               later \/ rd[1] = rd[2])
           /\ now' = rd[2]
           /\ UNCHANGED <<callVars, serverVars, nlVars, pollerVars, chatVars, uiVars>>

\* the dialog is closed; the next schedule starts afresh
SchedReturn ==
    /\ ~SchedIdle
    /\ created' = NoSchedule
    /\ UNCHANGED <<dashVars, serverVars, nlVars, pollerVars, chatVars, uiVars>>

(***************************************************************************)
(* dashboards/minimal_chat/app_simple.py: the data chat                    *)
(***************************************************************************)
\* any(word in input_lower for word in words)
AnyIn(words, input_lower) == \E word \in words : Contains(input_lower, word)

\* parse_user_input(user_input)
parse_user_input(user_input) ==
    LET input_lower == lower(user_input)
        time_range ==
            IF Contains(input_lower, "hour") \/ Contains(input_lower, "today") THEN "24 hours"
            ELSE IF Contains(input_lower, "week") THEN "7 days"
            ELSE IF Contains(input_lower, "month") THEN "30 days"
            ELSE "7 days"
        query_type ==
            IF AnyIn({"count", "how many", "total"}, input_lower) THEN "count"
            ELSE IF AnyIn({"top", "most", "highest"}, input_lower)
            THEN IF Contains(input_lower, "user") \/ Contains(input_lower, "actor")
                 THEN "top_actors"
                 ELSE IF Contains(input_lower, "action") THEN "top_actions"
                 ELSE IF Contains(input_lower, "source") THEN "top_sources"
                 ELSE "top_actions"
            ELSE IF AnyIn({"recent", "latest", "last"}, input_lower) THEN "recent"
            ELSE IF AnyIn({"error", "fail", "problem"}, input_lower) THEN "errors"
            ELSE IF Contains(input_lower, "change") THEN "changes"
            ELSE "summary"
    IN [query_type |-> query_type,
        time_filter |-> "OCCURRED_AT >= CURRENT_TIMESTAMP() - INTERVAL '" \o time_range \o "'",
        time_range |-> time_range]

\* the questions asked: what is asked about, and over which time
ChatSubjects ==
    {"Show me activity", "Count events", "How many events", "Who are the top users",
     "Show top actions", "Most active users", "Top sources", "Highest totals",
     "Recent errors", "Any errors", "What changed", "Show me", "Login failures",
     "Any problems", "Latest changes", "Last errors", "Total errors", "Top errors"}

ChatTimes ==
    {"", "?", " today", " this week", " this month", " recently", " in the last hour"}

ChatQuestions == {subject \o time : subject \in ChatSubjects, time \in ChatTimes}

NoParse == [query_type |-> "", time_filter |-> "", time_range |-> ""]

ChatInit == chat = [input |-> "", parsed |-> NoParse]

ChatIdle == chat.input = ""

\* a question is typed and parsed
ParseUserInput ==
    \E user_input \in ChatQuestions :
        /\ ChatIdle
        /\ chat' = [input |-> user_input, parsed |-> parse_user_input(user_input)]
        /\ UNCHANGED <<dashVars, serverVars, nlVars, pollerVars, schedVars, uiVars>>

\* the answer is shown; the next question starts afresh
ChatReturn ==
    /\ ~ChatIdle
    /\ chat' = [input |-> "", parsed |-> NoParse]
    /\ UNCHANGED <<dashVars, serverVars, nlVars, pollerVars, schedVars, uiVars>>

(***************************************************************************)
(* stage/coo_dashboard.py: the home screen and the result canvas.  An      *)
(* action is one user event: the script run that handles it and, where the *)
(* handler calls st.experimental_rerun(), the script run that follows.     *)
(***************************************************************************)
\* two of the preset cards, as the script run at the instant t builds them
PRESET_CARDS(t) ==
    [key \in {"activity_by_user", "top_actions_today"} |->
        IF key = "activity_by_user"
        THEN [title |-> "Activity by User",
              plan |-> [plan_version |-> "1.0", proc |-> "DASH_GET_TOPN",
                        params |-> [start_ts |-> get_iso_timestamp(t, 7 * 1440),
                                    end_ts |-> get_iso_timestamp(t, 0),
                                    dimension |-> "actor", n |-> 25, limit |-> 1000,
                                    filters |-> EmptyDict],
                        panels |-> <<[type |-> "bar", title |-> "Activity by User"]>>]]
        ELSE [title |-> "Top Actions",
              plan |-> [plan_version |-> "1.0", proc |-> "DASH_GET_TOPN",
                        params |-> [start_ts |-> isoformat(StartOfDay(t)),
                                    end_ts |-> get_iso_timestamp(t, 0),
                                    dimension |-> "action", n |-> 10, limit |-> 1000,
                                    filters |-> EmptyDict],
                        panels |-> <<[type |-> "bar", title |-> "Top Actions Today"]>>]]]

\* how the warehouse answers the procedure call of an execution
Answers == {"ok", "no_data", "no_row", "not_ok", "call_fails"}

\* the answers to the execution that the run handling a button press makes before it
\* reaches the handler: one for each status and params that execution can leave
FirstAnswers == {"ok", "not_ok", "call_fails"}

\* execute_plan(plan) at the instant t: the plan object after the call (run_plan
\* writes into its params), the status it leaves, the data it returns (None, or the
\* rows), the st.error texts it shows, and whether run_plan accepted and ran the
\* plan.  The statements run_plan sends are those of the operator run_plan.
execute_plan(pl, wh, t) ==
    LET after == IF Has(pl, "params") /\ ProcAllowed(pl)
                 THEN [pl EXCEPT !.params = run_plan_params(pl, t)] ELSE pl
    IN IF ~ProcAllowed(pl)
       THEN [plan |-> after, claude_status |-> "Error", data |-> None,
             errors |-> <<"Claude encountered an error: Disallowed proc: " \o ProcText(pl)>>,
             ran |-> FALSE]
       ELSE IF wh = "call_fails"
       THEN [plan |-> after, claude_status |-> "Error", data |-> None,
             errors |-> <<"Claude encountered an error: " \o WarehouseError>>,
             ran |-> FALSE]
       ELSE IF wh \in {"no_row", "not_ok"}
       THEN [plan |-> after, claude_status |-> "Error", data |-> None, errors |-> <<>>,
             ran |-> TRUE]
       ELSE [plan |-> after, claude_status |-> "Rendered",
             data |-> Some(IF wh = "no_data" THEN <<>> ELSE <<"row">>), errors |-> <<>>,
             ran |-> TRUE]

\* what one script run has put on the screen: the view, the status chip of the
\* canvas header, whether the approval prompt is shown, and, where the run executed
\* the current plan, the warehouse's answer, the mode it ran in, the user operations
\* on the plan no Approve had followed, the st.error texts and whether a chart or
\* table was drawn
Screen(view, chip, prompt, answer, mode, unapproved, errors, drawn) ==
    [view |-> view, chip |-> chip, prompt |-> prompt, answer |-> answer, mode |-> mode,
     unapproved |-> unapproved, errors |-> errors, drawn |-> drawn]

HomeScreen == Screen("home", "", FALSE, "none", "", {}, <<>>, FALSE)

\* the approval prompt is what the canvas shows for the session state u
AwaitsApproval(u) == u.claude_mode = "Approve" /\ u.needs_approval

\* lines 636-685: the session state and the screen once execute_plan has ended as x
canvas_after(u, x, wh) ==
    [u EXCEPT !.current_plan = Some(x.plan),
              !.claude_status = x.claude_status,
              !.validated = @ \/ x.ran,
              !.screen = Screen("canvas", "Claude: " \o u.claude_status, FALSE, wh,
                                u.claude_mode, u.pending, x.errors,
                                ~IsNone(x.data) /\ Len(x.data[1]) > 0)]

\* render_result_canvas() with no button pressed, lines 575-685
render_result_canvas(u, wh, t) ==
    IF IsNone(u.current_plan)
    THEN [u EXCEPT !.screen = Screen("canvas", "", FALSE, "none", "", {}, <<>>, FALSE)]
    ELSE IF AwaitsApproval(u)
    THEN [u EXCEPT !.screen = Screen("canvas", "Claude: " \o u.claude_status, TRUE, "none",
                                     "", {}, <<>>, FALSE)]
    ELSE canvas_after(u, execute_plan(u.current_plan[1], wh, t), wh)

\* the plans a session can hold at once, counted to bound the model
MaxPlans == 2

UIInit ==
    ui = [view_mode |-> "home", claude_mode |-> "Auto", needs_approval |-> FALSE,
          claude_status |-> "Listening", current_plan |-> None, plan_obj |-> 0,
          validated |-> FALSE, pending |-> {}, screen |-> HomeScreen]

\* the refinement controls and the question box are on the screen
CanvasControls == ui.screen.view = "canvas" /\ ui.screen.answer # "none"

\* render_home, lines 338-345: the mode is chosen
SelectMode ==
    \E mode \in {"Auto", "Approve"} :
        /\ ui.screen.view = "home"
        /\ ui' = [ui EXCEPT !.claude_mode = mode]
        /\ UNCHANGED <<dashVars, serverVars, nlVars, pollerVars, schedVars, chatVars>>

\* render_preset_card, lines 271-283: a card is clicked; the plan of the card becomes
\* the current plan, and the rerun shows the canvas
ClickPreset ==
    \E key \in DOMAIN PRESET_CARDS(now), wh \in Answers :
        /\ ui.screen.view = "home"
        /\ ui.plan_obj < MaxPlans
        /\ ui' = render_result_canvas(
                     [ui EXCEPT !.current_plan = Some(PRESET_CARDS(now)[key].plan),
                                !.plan_obj = @ + 1, !.validated = FALSE,
                                !.pending = {"preset"}, !.view_mode = "canvas"],
                     wh, now)
        /\ UNCHANGED <<dashVars, serverVars, nlVars, pollerVars, schedVars, chatVars>>

\* lines 576-579 and 603-605: back to the home screen
GoHome ==
    /\ ui.screen.view = "canvas"
    /\ ui' = [ui EXCEPT !.view_mode = "home", !.screen = HomeScreen]
    /\ UNCHANGED <<dashVars, serverVars, nlVars, pollerVars, schedVars, chatVars>>

\* lines 622-624: Approve is pressed on the approval prompt
Approve ==
    \E wh \in Answers :
        /\ ui.screen.prompt
        /\ ui' = render_result_canvas([ui EXCEPT !.needs_approval = FALSE, !.pending = {}],
                                      wh, now)
        /\ UNCHANGED <<dashVars, serverVars, nlVars, pollerVars, schedVars, chatVars>>

\* lines 629-632: Cancel is pressed on the approval prompt
Cancel ==
    /\ ui.screen.prompt
    /\ ui' = render_result_canvas([ui EXCEPT !.current_plan = None, !.needs_approval = FALSE,
                                            !.validated = FALSE, !.pending = {}],
                                  "ok", now)
    /\ UNCHANGED <<dashVars, serverVars, nlVars, pollerVars, schedVars, chatVars>>

\* lines 693-698 and 701-706: current_plan['params']['filters'][key] = value
apply_filter(pl, key, value) ==
    LET withFilters == IF Has(pl.params, "filters") THEN pl.params
                       ELSE Put(pl.params, "filters", EmptyDict)
    IN [pl EXCEPT !.params = [withFilters EXCEPT !.filters = Put(@, key, value)]]

\* "Apply User Filter" or "Apply Action Filter": the run that handles the press
\* executes the plan before it reaches the handler (line 637), the handler writes
\* the filter, and the rerun executes the plan again
ApplyFilter ==
    /\ CanvasControls
    /\ \E key \in {"actor", "action"}, wh1 \in FirstAnswers :
          \E u1 \in {render_result_canvas(ui, wh1, now)} :
              \E wh2 \in Answers :
                  ui' = render_result_canvas(
                            [u1 EXCEPT !.current_plan =
                                           Some(apply_filter(@[1], key,
                                                    IF key = "actor" THEN "john@example.com"
                                                    ELSE "user.login")),
                                       !.pending = @ \cup {"filter"}],
                            wh2, now)
    /\ UNCHANGED <<dashVars, serverVars, nlVars, pollerVars, schedVars, chatVars>>

\* "Apply Grouping", lines 708-713: current_plan['params']['group_by'] = group_by
ApplyGrouping ==
    /\ CanvasControls
    /\ \E group_by \in {"source"}, wh1 \in FirstAnswers :
          \E u1 \in {render_result_canvas(ui, wh1, now)} :
              \E wh2 \in Answers :
                  ui' = render_result_canvas(
                            [u1 EXCEPT !.current_plan =
                                           Some([@[1] EXCEPT
                                                    !.params = Put(@, "group_by", group_by)]),
                                       !.pending = @ \cup {"grouping"}],
                            wh2, now)
    /\ UNCHANGED <<dashVars, serverVars, nlVars, pollerVars, schedVars, chatVars>>

\* "Ask Claude", lines 739-751: the question is compiled to a new plan, which
\* becomes the current plan; in Approve mode needs_approval is set
AskClaude ==
    /\ CanvasControls
    /\ ui.plan_obj < MaxPlans
    /\ \E nl_input \in {"top actions today", "summary metrics"} :
          \E parsed \in {parse_natural_language(nl_input, now, now)} :
              /\ parsed.kind = "returned"
              /\ \E wh1 \in FirstAnswers :
                    \E u1 \in {render_result_canvas(ui, wh1, now)} :
                        \E wh2 \in Answers :
                            ui' = render_result_canvas(
                                      [u1 EXCEPT !.claude_status = "Thinking",
                                                 !.current_plan = Some(parsed.plan),
                                                 !.plan_obj = @ + 1, !.validated = FALSE,
                                                 !.pending = {"question"},
                                                 !.needs_approval =
                                                     @ \/ u1.claude_mode = "Approve"],
                                      wh2, now)
    /\ UNCHANGED <<dashVars, serverVars, nlVars, pollerVars, schedVars, chatVars>>

(***************************************************************************)
(* Specifications.                                                         *)
(***************************************************************************)
Init == DashInit /\ ServerInit /\ NLInit /\ PollerInit /\ SchedInit /\ ChatInit /\ UIInit

DashNext == Tick \/ RunPlan \/ ExecuteDashboardProc \/ ExecuteDashboard \/ Return

ServerNext == ComposeQueryPlan \/ ValidatePlan \/ Respond

NLNext == Tick \/ ParseNaturalLanguage \/ ParseNaturalLanguageSimple \/ NLReturn

PollerNext == Connect \/ GetDueSchedules \/ ProcessSchedule \/ Sleep \/ Interrupt

SchedNext == NextDay \/ CreateScheduleEvent \/ RenderScheduleModal \/ SchedReturn

ChatNext == ParseUserInput \/ ChatReturn

UINext ==
    SelectMode \/ ClickPreset \/ GoHome \/ Approve \/ Cancel \/ ApplyFilter
        \/ ApplyGrouping \/ AskClaude

Next == DashNext \/ ServerNext \/ NLNext \/ PollerNext \/ SchedNext \/ ChatNext \/ UINext

\* the dashboards and the schedule executor
SpecDash == Init /\ [][DashNext]_vars

\* the MCP server
SpecServer == Init /\ [][ServerNext]_vars

\* the NL compilers
SpecNL == Init /\ [][NLNext]_vars

\* the schedule executor's polling loop
SpecPoller == Init /\ [][PollerNext]_vars

\* the creation of schedules
SpecSchedule == Init /\ [][SchedNext]_vars

\* the home screen and the result canvas of the COO dashboard
SpecUI == Init /\ [][UINext]_vars

\* the data chat
SpecChat == Init /\ [][ChatNext]_vars

Spec == Init /\ [][Next]_vars

(***************************************************************************)
(* Properties of run_plan and of the callers of the DASH_GET_* procedures  *)
(* (checked under SpecDash).                                               *)
(***************************************************************************)
Whitelist == {"DASH_GET_SERIES", "DASH_GET_TOPN", "DASH_GET_EVENTS", "DASH_GET_METRICS"}

\* run_plan has run on an accepted plan and issued its procedure call
CallIssued == caller = "run_plan" /\ Len(sql_history) = 2

\* the params handed to run_plan
ParamsIn == IF Has(plan_in, "params") THEN plan_in.params ELSE EmptyDict

\* the payload bound to the procedure call, parsed back as the procedure parses it
Bound == json_loads(sql_history[2].binds[1])

\* C1: run_plan on a plan whose proc is not one of the four whitelisted
\* procedures (or is missing) raises an error naming the offending value, and
\* no statement at all has been issued on the session.
C1_DisallowedProcFailsBeforeSql ==
    (caller = "run_plan" /\ ~(Has(plan_in, "proc") /\ plan_in.proc \in Whitelist)) =>
        /\ outcome.kind = "raised"
        /\ Contains(outcome.error, IF Has(plan_in, "proc") THEN plan_in.proc ELSE "None")
        /\ Len(sql_history) = 0

C1_Witness ==
    /\ caller = "run_plan"
    /\ Has(plan_in, "proc")
    /\ plan_in.proc = "DASH_GET_USERS"
    /\ outcome.kind = "raised"

\* a statement that calls one of the DASH_GET_* procedures
IsDashCall(stmt) == Contains(stmt.sql, "CALL MCP.DASH_GET_")

\* C2: every call of a DASH_GET_* procedure issued by any caller has the text
\* CALL MCP.<PROC>(PARSE_JSON(?)) and exactly one bound parameter.
C2_EveryCallerBindsOneJson ==
    \A i \in 1..Len(sql_history) :
        IsDashCall(sql_history[i]) =>
            /\ \E proc \in Whitelist :
                  sql_history[i].sql = "CALL MCP." \o proc \o "(PARSE_JSON(?))"
            /\ Len(sql_history[i].binds) = 1

SqlLooking(text) == Contains(text, "DATEADD") \/ Contains(text, "CURRENT")

\* C3: no timestamp field of the payload run_plan binds contains DATEADD or
\* CURRENT.
C3_NoSqlInBoundTimestamps ==
    CallIssued =>
        \A k \in {"start_ts", "end_ts", "cursor_ts"} :
            Has(Bound, k) => ~SqlLooking(Bound[k])

\* C4: an n >= 0 is bound as min(n, 50), a limit >= 0 as min(limit, 5000).
C4_CountsClamped ==
    CallIssued =>
        /\ (Has(ParamsIn, "n") /\ ParamsIn.n >= 0) =>
              /\ Has(Bound, "n")
              /\ Bound.n = (IF ParamsIn.n < 50 THEN ParamsIn.n ELSE 50)
              /\ 0 <= Bound.n /\ Bound.n <= 50
        /\ (Has(ParamsIn, "limit") /\ ParamsIn.limit >= 0) =>
              /\ Has(Bound, "limit")
              /\ Bound.limit = (IF ParamsIn.limit < 5000 THEN ParamsIn.limit ELSE 5000)
              /\ 0 <= Bound.limit /\ Bound.limit <= 5000

C4_Witness ==
    /\ CallIssued
    /\ Has(ParamsIn, "n") /\ ParamsIn.n > 50 /\ Bound.n = 50
    /\ Has(ParamsIn, "limit") /\ ParamsIn.limit > 5000 /\ Bound.limit = 5000

\* C5: a plan without n is bound with n = 10, a plan without limit with
\* limit = 1000.
C5_DefaultsWhenAbsent ==
    CallIssued =>
        /\ ~Has(ParamsIn, "n") => (Has(Bound, "n") /\ Bound.n = 10)
        /\ ~Has(ParamsIn, "limit") => (Has(Bound, "limit") /\ Bound.limit = 1000)

IntervalEnum == {"minute", "5 minute", "15 minute", "hour", "day"}

\* C6: an interval of the enumeration is bound unchanged, any other interval
\* is bound as "hour"; the interval never makes run_plan fail before it
\* reaches the session; normalizing the bound params again changes nothing.
C6_IntervalNormalized ==
    (caller = "run_plan" /\ Has(plan_in, "proc") /\ plan_in.proc \in Whitelist
        /\ Has(ParamsIn, "interval")) =>
        /\ Len(sql_history) >= 1
        /\ outcome.kind = "raised" => outcome.error = WarehouseError
        /\ CallIssued =>
              /\ Has(Bound, "interval")
              /\ ParamsIn.interval \in IntervalEnum => Bound.interval = ParamsIn.interval
              /\ ParamsIn.interval \notin IntervalEnum => Bound.interval = "hour"
              /\ ValidateInterval(Bound) = Bound

C6_Witness ==
    /\ CallIssued
    /\ Has(ParamsIn, "interval")
    /\ ParamsIn.interval = "2 minutes"
    /\ Bound.interval = "hour"

(***************************************************************************)
(* Properties of the MCP server (checked under SpecServer).                *)
(***************************************************************************)
\* C7: a compose_query_plan request whose plan validate_plan finds errors in
\* is answered with a failure carrying those errors; no SQL is rendered,
\* nothing runs on the warehouse, no activity row is inserted.
C7_InvalidPlanNotExecuted ==
    (request.tool = "compose_query_plan" /\ QueryPlanAccepts(request.plan)
        /\ Len(validate_plan(request.plan)) > 0) =>
        /\ response.kind = "invalid"
        /\ response.errors = validate_plan(request.plan)
        /\ ~Has(response, "sql")
        /\ Len(quote_calls) = 0
        /\ Len(executed) = 0

C7_Witness ==
    /\ request.tool = "compose_query_plan"
    /\ request.plan.source = "ACTIVITY.SECRETS"
    /\ response.kind = "invalid"
    /\ conn = "open"

RECURSIVE FilterValues(_)
\* the values of a plan's filters, in order: a scalar, each element of an IN
\* list, both bounds of a BETWEEN
FilterValues(filters) ==
    IF Len(filters) = 0 THEN <<>>
    ELSE LET f == Head(filters)
         IN (IF f.operator = "IN" THEN IterItems(f.value)
             ELSE IF f.operator = "BETWEEN" THEN SubSeq(IterItems(f.value), 1, 2)
             ELSE <<f.value>>) \o FilterValues(Tail(filters))

\* the last request was rendered to SQL
Rendered == response.kind \in {"success", "valid"}

\* C8: in every rendered SQL text each filter value went through
\* _quote_value, and no text of the plan (dimension, measure function and
\* column, filter column and operator, order-by column and direction) was
\* interpolated as it is.
C8_NoRawPlanText ==
    Rendered =>
        /\ [i \in 1..Len(quote_calls) |-> quote_calls[i].value]
              = FilterValues(request.plan.filters)
        /\ \A i \in 1..Len(render_parts(database, request.plan)) :
              render_parts(database, request.plan)[i].src # "raw"

\* what the quoting function is to return for a value
QuotedAs(value) ==
    IF value.t = "NoneType" THEN "NULL"
    ELSE IF value.t = "bool" THEN (IF value.b THEN "TRUE" ELSE "FALSE")
    ELSE IF value.t = "int" THEN StrInt(value.i)
    ELSE IF value.t = "float" THEN StrInt(value.whole) \o "." \o Digit(value.tenth)
    ELSE "'" \o Replace(PyStr(value), "'", "''") \o "'"

\* C9: every value the renderer quotes comes out by its type: None as NULL, a
\* boolean as TRUE or FALSE, a number as its numeral, anything else single
\* quoted with every quote doubled.
C9_QuoteByType ==
    \A i \in 1..Len(quote_calls) : quote_calls[i].text = QuotedAs(quote_calls[i].value)

ClauseStarts(sql, kw) == {i \in 1..Len(sql) : StartsAt(sql, i, Sep \o kw \o " ")}

\* the object named after the first FROM, up to the next separator
FromObject(sql) ==
    LET first == SetMin(ClauseStarts(sql, "FROM")) + Len(Sep \o "FROM ")
        stop == SetMin({j \in first..(Len(sql) + 1) : j = Len(sql) + 1 \/ StartsAt(sql, j, Sep)})
    IN SubSeq(sql, first, stop - 1)

\* C28: for every query plan that validate_plan accepts, the FROM clause of the
\* rendered SQL names an object of the contract database CLAUDE_BI and one of the
\* contract's allowed schema.object sources; no accepted plan is rendered against
\* another database.
C28_FromInContractDatabase ==
    Rendered =>
        /\ ClauseStarts(response.sql, "FROM") # {}
        /\ \E src \in allowed_sources :
              FromObject(response.sql) = contract_database \o "." \o src
        /\ \A i \in 1..Len(executed) :
              executed[i].kind = "query" =>
                  \E src \in allowed_sources :
                      FromObject(executed[i].sql) = contract_database \o "." \o src

\* C29: for every plan that passes the QueryPlan model and validate_plan, the
\* rendered SQL ends with exactly one LIMIT k with 1 <= k <= 10000; a plan whose
\* top_n is absent or 0 is rendered with LIMIT 10000.
C29_LimitWithinBounds ==
    Rendered =>
        LET sql == response.sql
            starts == ClauseStarts(sql, "LIMIT")
            at == SetMin(starts) + Len(Sep \o "LIMIT ")
            k == ParseInt(sql, at)
        IN /\ Cardinality(starts) = 1
           /\ SubSeq(sql, at, Len(sql)) = StrInt(k[1])
           /\ 1 <= k[1] /\ k[1] <= max_rows_per_query
           /\ ~TruthyInt(request.plan.top_n) => k[1] = max_rows_per_query

\* C30: the validator and the renderer agree on unqualified source names: a source
\* without a dot, which the renderer qualifies with the database and the schema
\* ACTIVITY, gets from validate_source the verdict of its qualified name, and
\* VW_ACTIVITY_SUMMARY, the default source of compose_query_plan, is accepted, so
\* that a request naming no source reaches rendering and execution.
C30_UnqualifiedSourcesAgree ==
    (request.tool # "none" /\ ~Contains(request.plan.source, ".")) =>
        /\ validate_source(request.plan.source)
              = validate_source(_qualify_source(database, request.plan.source))
        /\ (/\ request.tool = "compose_query_plan"
            /\ request.body.source \in {None, Some("")}
            /\ QueryPlanAccepts(request.plan)) =>
               /\ validate_source(request.plan.source)
               /\ response.kind # "invalid"

(***************************************************************************)
(* Properties of the NL compilers (checked under SpecNL).                  *)
(***************************************************************************)
DigitChars == {Digit(d) : d \in 0..9}

\* s is YYYY-MM-DDTHH:MM:SS followed by an explicit offset (+HH:MM, -HH:MM or Z)
IsIso8601WithOffset(s) ==
    /\ Len(s) \in {20, 25}
    /\ \A i \in {1, 2, 3, 4, 6, 7, 9, 10, 12, 13, 15, 16, 18, 19} : CharAt(s, i) \in DigitChars
    /\ CharAt(s, 5) = "-" /\ CharAt(s, 8) = "-" /\ CharAt(s, 11) = "T"
    /\ CharAt(s, 14) = ":" /\ CharAt(s, 17) = ":"
    /\ IF Len(s) = 20 THEN CharAt(s, 20) = "Z"
       ELSE /\ CharAt(s, 20) \in {"+", "-"}
            /\ \A i \in {21, 22, 24, 25} : CharAt(s, i) \in DigitChars
            /\ CharAt(s, 23) = ":"

RECURSIVE DaysToYear(_)
\* the days from 1 January 2025 to 1 January of year y
DaysToYear(y) ==
    IF y = 2025 THEN 0
    ELSE IF y < 2025 THEN DaysToYear(y + 1) - DaysInYear(y)
    ELSE DaysToYear(y - 1) + DaysInYear(y - 1)

RECURSIVE DaysToMonth(_, _)
\* the days from 1 January of year y to the first of month m
DaysToMonth(y, m) == IF m = 1 THEN 0 ELSE DaysToMonth(y, m - 1) + DaysInMonth(y, m - 1)

\* the instant a UTC ISO-8601 text names, in minutes since 2025-01-01T00:00
Instant(s) ==
    LET num(a, b) == ParseDecimal(SubSeq(s, a, b), 0)
    IN (DaysToYear(num(1, 4)) + DaysToMonth(num(1, 4), num(6, 7)) + num(9, 10) - 1) * 1440
       + num(12, 13) * 60 + num(15, 16)

PlanIntervals == {"minute", "5 minute", "15 minute", "hour", "day"}
PlanDimensions == {"action", "actor", "source", "object_type"}

\* a compiler has returned a plan
Compiled == ~NLIdle /\ nl_outcome.kind = "returned"

\* C11: every plan an NL compiler produces satisfies the Plan contract: a
\* whitelisted proc, a filters mapping, start_ts and end_ts in ISO-8601 with
\* an explicit offset, an interval (when present) of the enumeration, a
\* dimension (when present) of the allowed set.
C11_CompiledPlanMeetsContract ==
    Compiled =>
        /\ nl_plan.proc \in Whitelist
        /\ Has(nl_plan.params, "filters")
        /\ DOMAIN nl_plan.params.filters \subseteq {"actor", "action", "cohort_url"}
        /\ IsIso8601WithOffset(nl_plan.params.start_ts)
        /\ IsIso8601WithOffset(nl_plan.params.end_ts)
        /\ Has(nl_plan.params, "interval") => nl_plan.params.interval \in PlanIntervals
        /\ Has(nl_plan.params, "dimension") => nl_plan.params.dimension \in PlanDimensions

C11_Witness ==
    /\ Compiled
    /\ nl_text = "hone in on user acme_coo@company.com last 48h by hour"
    /\ DOMAIN nl_plan.params.filters = {"actor"}
    /\ Has(nl_plan.params, "interval")

\* the text holds none of the phrases the compilers look for
MatchesNoPattern(text) ==
    LET low == lower(text)
    IN /\ Len(TimeMatch(low)) = 0
       /\ \A w \in {"today", "top", "most", "metric", "summary", "by hour", "by day",
                    "hourly", "daily", "15 min", "fifteen min", "user", "actor", "action",
                    "@", "s3://"} : ~Contains(low, w)

\* C12: an NL compiler returns a plan for every text and never raises; for a
\* text that matches no pattern the plan is DASH_GET_SERIES over the last 24
\* hours with interval hour and empty filters.
C12_AlwaysReturnsAPlan ==
    ~NLIdle =>
        /\ nl_outcome.kind = "returned"
        /\ MatchesNoPattern(nl_text) =>
              /\ nl_plan.proc = "DASH_GET_SERIES"
              /\ nl_plan.params.interval = "hour"
              /\ nl_plan.params.filters = EmptyDict
              /\ Instant(nl_plan.params.end_ts) - Instant(nl_plan.params.start_ts)
                    \in {24 * 60, 24 * 60 + 1}

\* C13: the procedure follows the keywords of the text: top or most gives
\* DASH_GET_TOPN, metric or summary gives DASH_GET_METRICS, any other text
\* DASH_GET_SERIES (either of the two for a text holding keywords of both).
C13_ProcByKeyword ==
    Compiled =>
        LET low == lower(nl_text)
            topn == Contains(low, "top") \/ Contains(low, "most")
            metrics == Contains(low, "metric") \/ Contains(low, "summary")
        IN /\ (topn /\ ~metrics) => nl_plan.proc = "DASH_GET_TOPN"
           /\ (metrics /\ ~topn) => nl_plan.proc = "DASH_GET_METRICS"
           /\ (topn /\ metrics) => nl_plan.proc \in {"DASH_GET_TOPN", "DASH_GET_METRICS"}
           /\ (~topn /\ ~metrics) => nl_plan.proc = "DASH_GET_SERIES"

\* the clock values the call read
ClockReads == {nl_outcome.clock[i] : i \in DOMAIN nl_outcome.clock}

\* C14: for a text containing "today" the plan starts at 00:00 UTC of the
\* current day and ends at the current instant, whatever else the text holds;
\* "top actions today" gives DASH_GET_TOPN with dimension action.
C14_TodayStartsAtMidnight ==
    (~NLIdle /\ Contains(lower(nl_text), "today")) =>
        /\ nl_outcome.kind = "returned"
        /\ Instant(nl_plan.params.start_ts) \in {StartOfDay(t) : t \in ClockReads}
        /\ Instant(nl_plan.params.end_ts) \in ClockReads
        /\ nl_text = "top actions today" =>
              /\ nl_plan.proc = "DASH_GET_TOPN"
              /\ Has(nl_plan.params, "dimension")
              /\ nl_plan.params.dimension = "action"

\* C15: for a text with "last N hours/days/minutes" and without "today" the
\* plan has start_ts <= end_ts and a range of N units (up to a minute more);
\* with "by hour" in the text the interval is "hour".
C15_LastNUnitsRange ==
    (~NLIdle /\ Len(TimeMatch(lower(nl_text))) > 0 /\ ~Contains(lower(nl_text), "today")) =>
        /\ nl_outcome.kind = "returned"
        /\ LET m == TimeMatch(lower(nl_text))[1]
               range == ParseDecimal(m.digits, 0) * UnitMinutes(m.unit)
               start == Instant(nl_plan.params.start_ts)
               end == Instant(nl_plan.params.end_ts)
           IN /\ start <= end
              /\ end - start \in {range, range + 1}
        /\ Contains(lower(nl_text), "by hour") =>
              (Has(nl_plan.params, "interval") /\ nl_plan.params.interval = "hour")

(***************************************************************************)
(* Properties of the schedule executor (checked under SpecPoller).         *)
(***************************************************************************)
\* the cycle's for loop has run to its end
CycleDone == executor = "process" /\ schedules = <<>>

\* C16: an exception raised at any step of processing one schedule is caught and
\* logged for that schedule only; the remaining due schedules of the same cycle
\* are still processed, in the order fetched, and the cycle reaches its sleep
\* with every fetched schedule processed.
C16_FailureIsolatedPerSchedule ==
    /\ executor = "process" => Len(cycle_log) + Len(schedules) = Len(fetched.rows)
    /\ \A k \in 1..Len(cycle_log) :
          LET e == cycle_log[k]
          IN /\ ~e.raised
             /\ k <= Len(fetched.rows) /\ e.schedule_id = fetched.rows[k].SCHEDULE_ID
             /\ e.error # "" =>
                   /\ \E i \in 1..Len(e.logs) :
                         /\ e.logs[i].level = "ERROR"
                         /\ Contains(e.logs[i].msg, "schedule " \o PyStrOpt(e.schedule_id) \o ":")
                   /\ \A j \in 1..Len(cycle_log) :
                         cycle_log[j].schedule_id # e.schedule_id =>
                             \A i \in 1..Len(e.logs) :
                                 ~Contains(e.logs[i].msg, PyStrOpt(cycle_log[j].schedule_id))

\* a cycle of two schedules whose first raised in process_schedule and whose
\* second was still processed to its completion event
C16_Witness ==
    /\ CycleDone
    /\ Len(cycle_log) = 2
    /\ cycle_log[1].error # ""
    /\ cycle_log[2].completed

\* C17: a schedule whose processing failed gets no completion event in that
\* cycle, and every schedule that failed in the cycle before is fetched and
\* processed again in this cycle, however often it has failed.
C17_FailedScheduleRetriedEveryCycle ==
    /\ \A k \in 1..Len(cycle_log) : cycle_log[k].failed => ~cycle_log[k].completed
    /\ executor = "process" =>
          \A k \in 1..Len(prev_log) :
              prev_log[k].failed =>
                  \E j \in 1..Len(fetched.rows) :
                      /\ fetched.rows[j].SCHEDULE_ID = prev_log[k].schedule_id
                      /\ fetched.rows[j].DASHBOARD_ID = prev_log[k].dashboard_id

\* the completion events of a schedule among the first n rows of the log
CompletionsOf(schedule_id, n) ==
    {i \in 1..n : /\ events[i].action = "dashboard.snapshot_generated"
                  /\ events[i].schedule_id = schedule_id}

\* C18: a schedule is processed only if its next_run has passed and it has no
\* completion event or a latest completion event older than one hour; one whose
\* completion event is less than one hour old is never processed.
C18_OnlyDueSchedulesProcessed ==
    \A k \in 1..Len(cycle_log) :
        LET e == cycle_log[k]
        IN /\ \E i \in 1..Len(events) :
                 /\ events[i].action = "dashboard.schedule_created"
                 /\ events[i].schedule_id = e.schedule_id
                 /\ events[i].dashboard_id = e.dashboard_id
                 /\ ~IsNone(events[i].next_run)
                 /\ events[i].next_run[1] <= e.started_at
           /\ \A i \in CompletionsOf(e.schedule_id, e.events_before) :
                 events[i].occurred_at < e.started_at - 60

\* a schedule with an earlier completion event is processed again
C18_Witness ==
    \E k \in 1..Len(cycle_log) :
        CompletionsOf(cycle_log[k].schedule_id, cycle_log[k].events_before) # {}

\* C19: every panel of the dashboard's spec is executed, in the order of the
\* spec, before the snapshot is synthesized, delivered and the completion event
\* appended; the snapshot holds one result per panel of the spec.
C19_EveryPanelInSnapshot ==
    \A k \in 1..Len(cycle_log) :
        LET e == cycle_log[k]
            n == Len(e.panels)
        IN (\E i \in 1..Len(e.steps) : e.steps[i].step = "snapshot") =>
              /\ Len(e.steps) >= n + 2
              /\ e.steps[1].step = "spec"
              /\ \A i \in 1..n : e.steps[i + 1] = Step("panel", i)
              /\ e.steps[n + 2].step = "snapshot"
              /\ Len(e.results) = n
              /\ \A i \in 1..n : e.results[i].panel = e.panels[i]

\* minutes between two occurrences of a schedule
Period(frequency) == IF frequency = "WEEKLY" THEN 7 * 1440 ELSE 1440

\* the first occurrence of a schedule after the instant ran_at, its occurrences being
\* next_run, next_run + Period, ...
NextOccurrence(next_run, frequency, ran_at) ==
    IF ran_at < next_run THEN next_run
    ELSE next_run + Period(frequency) * ((ran_at - next_run) \div Period(frequency) + 1)

\* C26: a schedule is processed at most once per scheduled occurrence: once a run
\* of a DAILY schedule has been recorded by its completion event, the poller does
\* not process the schedule again before its run time of the next day (for WEEKLY,
\* of the next week).
C26_OncePerOccurrence ==
    \A k \in 1..Len(cycle_log) :
        LET e == cycle_log[k]
        IN (e.frequency \in {"DAILY", "WEEKLY"} /\ ~IsNone(e.next_run)) =>
              \A i \in CompletionsOf(e.schedule_id, e.events_before) :
                  e.started_at >= NextOccurrence(e.next_run[1], e.frequency,
                                                 events[i].occurred_at)

\* the closing INFO line of process_schedule is in the log of the call
ReportsSuccess(e) ==
    \E i \in 1..Len(e.logs) :
        /\ e.logs[i].level = "INFO"
        /\ e.logs[i].msg = "Successfully processed schedule " \o PyStrOpt(e.schedule_id)

\* C27: a schedule whose snapshot was delivered in one cycle is not fetched for
\* execution and delivery again in the next cycle: every delivery is recorded by a
\* completion event appended in the same call, and process_schedule reports
\* success only if that completion event was appended.
C27_DeliveredOncePerCycle ==
    /\ \A k \in 1..Len(cycle_log) :
          LET e == cycle_log[k]
              delivering == \E i \in 1..Len(e.steps) : e.steps[i].step = "deliver"
          IN /\ delivering => e.completed
             /\ ReportsSuccess(e) => e.completed
    /\ executor = "process" =>
          \A k \in 1..Len(prev_log) :
              prev_log[k].delivered # <<>> =>
                  \A j \in 1..Len(fetched.rows) :
                      fetched.rows[j].SCHEDULE_ID # prev_log[k].schedule_id

(***************************************************************************)
(* Properties of schedule creation (checked under SpecSchedule).           *)
(***************************************************************************)
\* the time of day, in minutes, a schedule was asked for
AskedTime(time) == ParseDecimal(SubSeq(time, 1, 2), 0) * 60 + ParseDecimal(SubSeq(time, 4, 5), 0)

\* C20: for a schedule of frequency WEEKDAYS, whichever creator made it, next_run
\* never falls on a Saturday or Sunday: it is at the asked local time, not before
\* the creation, and when it lies more than a day ahead it is the Monday that
\* follows the weekend its candidate landed on.
C20_WeekdaysNeverOnWeekend ==
    (created.creator # "none" /\ created.frequency = "WEEKDAYS") =>
        /\ weekday(created.next_run) < 5
        /\ FloorMod(created.next_run, 1440) = AskedTime(created.time)
        /\ created.next_run >= created.now_local
        /\ created.next_run - created.now_local > 1440 =>
              /\ weekday(created.next_run) = 0
              /\ created.next_run - created.now_local <= 3 * 1440

\* C21: every dashboard.schedule_created event that is appended carries all of
\* schedule_id, dashboard_id, frequency, time, timezone, deliveries and next_run in
\* its attributes, so that the poller, which reads schedule_id and next_run from the
\* event, selects the schedule once next_run has passed.
C21_ScheduleEventComplete ==
    created.creator # "none" =>
        /\ {"schedule_id", "dashboard_id", "frequency", "time", "timezone", "deliveries",
            "next_run"} \subseteq created.attributes
        /\ ~IsNone(created.event.schedule_id)
        /\ ~IsNone(created.event.next_run)
        /\ \A wait \in {0, PollInterval} :
              \A rows \in get_due_schedules(<<created.event>>,
                                            created.event.next_run[1] + wait, "ok") :
                  /\ Len(rows) = 1
                  /\ rows[1].SCHEDULE_ID = created.event.schedule_id
(***************************************************************************)
(* Properties of the data chat (checked under SpecChat).                   *)
(***************************************************************************)
\* C24: parse_user_input answers a question that contains an error keyword
\* (error, fail, problem) with query_type errors and one that contains "change"
\* with changes, also when the question contains "recent", "recently", "latest" or
\* "last"; only the count keywords and the top keywords take precedence.
C24_ErrorsAndChangesByKeyword ==
    ~ChatIdle =>
        LET input_lower == lower(chat.input)
            counting == AnyIn({"count", "how many", "total"}, input_lower)
            ranking == AnyIn({"top", "most", "highest"}, input_lower)
            failing == AnyIn({"error", "fail", "problem"}, input_lower)
        IN (~counting /\ ~ranking) =>
              /\ failing => chat.parsed.query_type = "errors"
              /\ (~failing /\ Contains(input_lower, "change")) =>
                     chat.parsed.query_type = "changes"
(***************************************************************************)
(* Properties of the dashboard's canvas (checked under SpecUI).            *)
(***************************************************************************)
\* the script run that drew the screen executed the current plan and the execution
\* failed: the call raised, the procedure returned no row, or its result said ok = false
ExecutionFailed == ui.screen.answer \in {"call_fails", "no_row", "not_ok"}

\* C22: whenever the execution of a plan from the dashboard UI fails (the warehouse
\* call raises, the procedure returns no row, or the result reports ok = false),
\* the screen of that run tells the user so, by an error message or by the status
\* chip; no failed execution ends with a canvas that shows nothing of the failure.
C22_FailureShown ==
    ExecutionFailed =>
        \/ Len(ui.screen.errors) > 0
        \/ ui.screen.chip = "Claude: Error"

\* C23: a plan is immutable once validated: after run_plan has validated and
\* executed the current plan object, no later user operation (user filter, action
\* filter, grouping, preset, new question) changes that object or its params in
\* place; an operation that changes the plan makes a new plan object.
C23_ValidatedPlanImmutable ==
    [][(/\ ui.validated
        /\ ui'.plan_obj = ui.plan_obj
        /\ ~IsNone(ui'.current_plan)) => ui'.current_plan = ui.current_plan]_vars

\* C25: while the mode is Approve, no plan is executed before the user has pressed
\* Approve for it, however it became the current plan (a question, a preset card, a
\* filter or grouping refinement), and nothing is executed while the approval
\* prompt is shown.
C25_NoExecutionBeforeApproval ==
    /\ (ui.screen.answer # "none" /\ ui.screen.mode = "Approve") => ui.screen.unapproved = {}
    /\ ui.screen.prompt => ui.screen.answer = "none"

====
